---- MODULE Spec2Model ----
(***************************************************************************)
(* EMS incident warehouse ETL (src/etl/python): the Type-1 surrogate-key   *)
(* resolver (load-dimensions.py), the pipeline driver (main.py) with       *)
(* staging, transform and fact load, and the run/step/error audit log      *)
(* (logging-utils.py).                                                     *)
(*                                                                         *)
(* Strings are sequences of one-character strings, so that strip, slicing  *)
(* and concatenation are computed as the code computes them.  Python's     *)
(* None is the one-element sequence None, which no string equals.          *)
(***************************************************************************)
EXTENDS Integers, Sequences, FiniteSets, TLC

VARIABLES
    \* the warehouse as the resolver sees it
    dim,        \* categorical dimension tables: table name -> set of rows
    seq,        \* sqlite_sequence: table name -> largest AUTOINCREMENT rowid so far
    static,     \* DIM_DATE / DIM_TIME_OF_DAY: sentinel row present, calendar rows present
    loader,     \* DimensionLoader instances: constructed flag and the nine caches
    last,       \* the most recent resolver call: instance, table, arguments, outcome
    returned,   \* history: (table, natural key) -> the surrogate key first returned for it
    \* the pipeline driver
    pc,         \* where main / run_etl stands
    cfg,        \* what main was started with: source file, batch_size, full_refresh
    staging,    \* STG_EMS_INCIDENT in rowid order
    fact,       \* FACT_EMS_INCIDENT in rowid order, and its AUTOINCREMENT counter
    run,        \* the locals of run_etl, with the history of what it did
    \* the audit log
    run_log,    \* ETL_RUN_LOG in rowid order (run_id = position)
    step_log,   \* ETL_STEP_LOG in rowid order (step_log_id = position)
    error_log,  \* ETL_ERROR_LOG in rowid order
    logger,     \* the ETLLogger instance: run_id, step_order, errors
    scopes,     \* the `with logger.step(...)` blocks that are open, innermost last
    signal,     \* what the last ETLLogger operation raised to its caller
    clock       \* datetime.now()

dimVars == <<dim, seq, static, loader, last, returned>>
runVars == <<pc, cfg, staging, fact, run>>
logVars == <<run_log, step_log, error_log, logger, scopes, signal, clock>>
vars == <<dimVars, runVars, logVars>>

-----------------------------------------------------------------------------
(* Bounds *)

\* AUTOINCREMENT rows the dimension tables may receive in one behaviour of
\* the resolver driven by arbitrary callers
MaxInserts == 2
\* data rows of the source file
MaxRows == 3
\* config.etl.batch_size ranges over 1..MaxBatch
MaxBatch == 3
\* ETLLogger operations in one behaviour of the audit log
MaxLogOps == 5
\* executions of main, one after the other, against one database
MaxRuns == 2

-----------------------------------------------------------------------------
(* Values *)

None == <<"None">>
EmptyStr == <<>>
Unknown == <<"U", "n", "k", "n", "o", "w", "n">>
LAKE == <<"L", "A", "K", "E">>
MARION == <<"M", "A", "R", "I", "O", "N">>
ALS == <<"A", "L", "S">>
OrgSeparator == <<"|", "|">>

\* natural keys handed to the resolver
CountyKeys == {None, EmptyStr, LAKE, MARION, Unknown}
NaturalKeys == {None, EmptyStr, LAKE}
StructureKeys == {None, EmptyStr, LAKE}
ServiceKeys == {None, ALS}

\* Python truthiness of an Optional[str]: `not value`
is_falsy_none_only(value) == value = None
is_falsy(value) == value = None \/ value = EmptyStr

\* dim_loader of this pipeline process, and that of a second process on the
\* same warehouse
Loaders == {1, 2}
ThisProcess == {1}

CatDims == {"DIM_COUNTY", "DIM_CHIEF_COMPLAINT", "DIM_ANATOMIC_LOCATION",
            "DIM_SYMPTOM", "DIM_PROVIDER_IMPRESSION", "DIM_DISPOSITION",
            "DIM_DESTINATION_TYPE", "DIM_PROVIDER_ORGANIZATION",
            "DIM_SERVICE_LEVEL"}
StaticDims == {"DIM_DATE", "DIM_TIME_OF_DAY"}
AllDims == StaticDims \cup CatDims

\* the INSERT OR IGNORE statements of the seeding script, in script order
SeedScript == <<"DIM_DATE", "DIM_TIME_OF_DAY", "DIM_COUNTY", "DIM_CHIEF_COMPLAINT",
                "DIM_ANATOMIC_LOCATION", "DIM_SYMPTOM", "DIM_PROVIDER_IMPRESSION",
                "DIM_DISPOSITION", "DIM_DESTINATION_TYPE",
                "DIM_PROVIDER_ORGANIZATION", "DIM_SERVICE_LEVEL">>

UnknownKey == -1

\* a row of a categorical dimension; name is the UNIQUE natural-key column
\* (org_lookup_key for DIM_PROVIDER_ORGANIZATION)
Row(key, name, structure, service) ==
    [key |-> key, name |-> name, structure |-> structure, service |-> service]

UnknownRow(d) ==
    IF d = "DIM_PROVIDER_ORGANIZATION"
    THEN Row(UnknownKey, Unknown \o OrgSeparator \o Unknown, Unknown, None)
    ELSE Row(UnknownKey, Unknown, None, None)

EmptyCache == [n \in {} |-> 0]
NoResult == 0

-----------------------------------------------------------------------------
(* The store: SQLite semantics the resolver relies on *)

\* PRIMARY KEY / UNIQUE: would inserting row r into table t conflict?
conflicts(t, r) == \E x \in t : x.key = r.key \/ x.name = r.name

\* INSERT OR IGNORE of r into t
insert_or_ignore(t, r) == IF conflicts(t, r) THEN t ELSE t \cup {r}

\* UNIQUE on the natural-key column: a plain INSERT of this name fails
unique_violation_never(t, name) == FALSE
unique_violation(t, name) == \E x \in t : x.name = name

\* INTEGER PRIMARY KEY AUTOINCREMENT: one more than the largest rowid so far
autoincrement_reuse(sq) == 1
autoincrement(sq) == sq + 1

\* cursor.lastrowid after the INSERT
lastrowid_rowcount(key) == 1
lastrowid(key) == key

\* rows inserted so far by get_or_create_* (the bound of the model counts them)
TotalInserted ==
    seq["DIM_COUNTY"] + seq["DIM_CHIEF_COMPLAINT"] + seq["DIM_ANATOMIC_LOCATION"]
    + seq["DIM_SYMPTOM"] + seq["DIM_PROVIDER_IMPRESSION"] + seq["DIM_DISPOSITION"]
    + seq["DIM_DESTINATION_TYPE"] + seq["DIM_PROVIDER_ORGANIZATION"]
    + seq["DIM_SERVICE_LEVEL"]

-----------------------------------------------------------------------------
(* DimensionLoader construction *)

\* the first n statements of the seeding script applied to the store
RECURSIVE seed_dims(_, _)
seed_dims(dm, n) ==
    IF n <= 2 THEN dm
    ELSE LET d == SeedScript[n]
             prev == seed_dims(dm, n - 1)
         IN [prev EXCEPT ![d] = insert_or_ignore(prev[d], UnknownRow(d))]

seed_static(st, n) ==
    [s \in StaticDims |->
        IF (s = "DIM_DATE" /\ n >= 1) \/ (s = "DIM_TIME_OF_DAY" /\ n >= 2)
        THEN [st[s] EXCEPT !.unknown = TRUE]
        ELSE st[s]]

\* _seed_unknown_members: skipped as a whole when DIM_COUNTY holds key -1
already_seeded(dm) == \E x \in dm["DIM_COUNTY"] : x.key = UnknownKey

\* SELECT COUNT(*) FROM DIM_DATE WHERE date_key > 0 (DIM_TIME_OF_DAY WHERE
\* time_of_day_key >= 0) finds a row
already_populated_or_seeded(row) == row.populated \/ row.unknown
already_populated(row) == row.populated

\* _populate_date_dimension / _populate_time_dimension: skipped when any
\* non-sentinel row exists, otherwise every calendar row is inserted at once
populate(st) ==
    [s \in StaticDims |->
        IF already_populated(st[s]) THEN st[s] ELSE [st[s] EXCEPT !.populated = TRUE]]

\* _load_caches: every row of every table, natural key -> surrogate key
load_cache(t) ==
    [n \in {x.name : x \in t} |-> (CHOOSE x \in t : x.name = n).key]

_load_caches_nothing(dm) == [d \in CatDims |-> EmptyCache]
_load_caches(dm) == [d \in CatDims |-> load_cache(dm[d])]

\* seq0 remembers sqlite_sequence as it stood when the instance was built:
\* a row with a larger key was inserted by this very instance
NoLoader == [constructed |-> FALSE, cache |-> [d \in CatDims |-> EmptyCache],
             seq0 |-> [d \in CatDims |-> 0]]

\* DimensionLoader.__init__ against the store (dm, st, sq): the store after
\* it, and the instance
DimensionLoader(dm, st, sq) ==
    LET n == IF already_seeded(dm) THEN 0 ELSE Len(SeedScript)
        seeded == seed_dims(dm, n)
    IN [dim |-> seeded,
        static |-> populate(seed_static(st, n)),
        self |-> [constructed |-> TRUE, cache |-> _load_caches(seeded), seq0 |-> sq]]

\* dim_loader = DimensionLoader(db_path) binds a new instance to l, whatever
\* instance l held before is gone
Construct(l) ==
    LET new == DimensionLoader(dim, static, seq)
    IN /\ dim' = new.dim
       /\ static' = new.static
       /\ loader' = [loader EXCEPT ![l] = new.self]
       /\ last' = [l |-> l, d |-> "__init__", arg |-> <<>>,
                   result |-> NoResult, raised |-> FALSE]
       /\ UNCHANGED <<seq, returned, runVars, logVars>>

\* the process is killed inside the seeding script: executescript commits each
\* statement on its own, so the first n statements stay
SeedInterrupted(l) ==
    /\ ~already_seeded(dim)
    /\ \E n \in 1..(Len(SeedScript) - 1) :
          /\ dim' = seed_dims(dim, n)
          /\ static' = seed_static(static, n)
    /\ loader' = [loader EXCEPT ![l] = NoLoader]
    /\ last' = [l |-> l, d |-> "killed", arg |-> <<>>,
                result |-> NoResult, raised |-> TRUE]
    /\ UNCHANGED <<seq, returned, runVars, logVars>>

-----------------------------------------------------------------------------
(* get_or_create_* *)

\* history of first answers
remember(h, d, arg, key) ==
    IF <<d, arg>> \in DOMAIN h THEN h
    ELSE [x \in DOMAIN h \cup {<<d, arg>>} |-> IF x = <<d, arg>> THEN key ELSE h[x]]

cache_put(c, name, key) ==
    [n \in DOMAIN c \cup {name} |-> IF n = name THEN key ELSE c[n]]

\* what a resolver method works on: the tables, sqlite_sequence, and the
\* caches of the instance
Store(dm, sq, c) == [dim |-> dm, seq |-> sq, cache |-> c]

\* one resolve against table d with cache key `name`; (structure, service) are
\* the two extra columns of the provider table.  The outcome carries the store
\* as the call leaves it, the returned key, and the path taken.
resolve(db, d, absent, name, structure, service) ==
    IF absent
    THEN [dim |-> db.dim, seq |-> db.seq, cache |-> db.cache,
          result |-> UnknownKey, raised |-> FALSE, path |-> "absent"]
    ELSE IF name \in DOMAIN db.cache[d]
    THEN [dim |-> db.dim, seq |-> db.seq, cache |-> db.cache,
          result |-> db.cache[d][name], raised |-> FALSE, path |-> "hit"]
    ELSE IF unique_violation(db.dim[d], name)
    THEN \* sqlite3.IntegrityError leaves the method through finally
         [dim |-> db.dim, seq |-> db.seq, cache |-> db.cache,
          result |-> NoResult, raised |-> TRUE, path |-> "raised"]
    ELSE LET rowid == autoincrement(db.seq[d])
             key == lastrowid(rowid)
         IN [dim |-> [db.dim EXCEPT ![d] = @ \cup {Row(rowid, name, structure, service)}],
             seq |-> [db.seq EXCEPT ![d] = rowid],
             cache |-> [db.cache EXCEPT ![d] = cache_put(@, name, key)],
             result |-> key, raised |-> FALSE, path |-> "insert"]

get_or_create(db, d, name) ==
    resolve(db, d, is_falsy(name), name, None, None)

get_or_create_county(db, name) ==
    get_or_create(db, "DIM_COUNTY", name)
get_or_create_complaint(db, name) ==
    get_or_create(db, "DIM_CHIEF_COMPLAINT", name)
get_or_create_anatomic(db, name) ==
    get_or_create(db, "DIM_ANATOMIC_LOCATION", name)
get_or_create_symptom(db, name) ==
    get_or_create(db, "DIM_SYMPTOM", name)
get_or_create_impression(db, name) ==
    get_or_create(db, "DIM_PROVIDER_IMPRESSION", name)
get_or_create_disposition(db, name) ==
    get_or_create(db, "DIM_DISPOSITION", name)
get_or_create_destination(db, name) ==
    get_or_create(db, "DIM_DESTINATION_TYPE", name)
get_or_create_service_level(db, name) ==
    get_or_create(db, "DIM_SERVICE_LEVEL", name)

\* f"{structure}||{service or ''}"
org_lookup_key(structure, service) ==
    structure \o OrgSeparator \o (IF is_falsy(service) THEN EmptyStr ELSE service)

get_or_create_provider_org(db, structure, service) ==
    resolve(db, "DIM_PROVIDER_ORGANIZATION", is_falsy(structure),
            IF is_falsy(structure) THEN EmptyStr ELSE org_lookup_key(structure, service),
            structure, service)

\* the store as instance l sees it
StoreOf(l) == Store(dim, seq, loader[l].cache)

\* a caller invokes a resolver method of instance l on table d with arguments
\* arg; r is what the method does
Call(l, d, arg, r) ==
    /\ loader[l].constructed
    /\ r.path = "insert" => TotalInserted < MaxInserts
    /\ dim' = r.dim
    /\ seq' = r.seq
    /\ loader' = [loader EXCEPT ![l].cache = r.cache]
    /\ last' = [l |-> l, d |-> d, arg |-> arg,
                result |-> r.result, raised |-> r.raised]
    /\ returned' = IF r.path \in {"hit", "insert"}
                   THEN remember(returned, d, arg, r.result)
                   ELSE returned
    /\ UNCHANGED <<static, runVars, logVars>>

-----------------------------------------------------------------------------
(* The audit log: ETLLogger *)

\* an Optional[int]: None is the empty set
Nothing == {}
Some(n) == {n}

\* a message is kept whole, as a one-element sequence
Text(s) == <<s>>

StepMetrics == [rows_read |-> 0, rows_inserted |-> 0, rows_updated |-> 0,
                rows_rejected |-> 0, rows_deleted |-> 0]

\* ETLLogger.__init__: no run yet
ETLLogger == [run_id |-> Nothing, step_order |-> 0, errors |-> <<>>]

NoSignal == [kind |-> "none", msg |-> None]
IntegrityError == [kind |-> "IntegrityError", msg |-> Text("NOT NULL constraint failed")]
UnboundLocalError ==
    [kind |-> "UnboundLocalError",
     msg |-> Text("cannot access local variable 'status' where it is not associated with a value")]

\* what the body of a `with logger.step(...)` block may end with
ExceptionKinds == {"ValueError"}
BodyOutcomes ==
    {[kind |-> "return", msg |-> None],
     [kind |-> "ValueError", msg |-> Text("Source validation failed")],
     [kind |-> "KeyboardInterrupt", msg |-> EmptyStr]}

Statuses == {"SUCCESS", "FAILED", "PARTIAL"}

\* start_run: INSERT INTO ETL_RUN_LOG, status by DEFAULT 'RUNNING'
start_run(rl, t, source_file, environment, load_type) ==
    LET row == [run_start_dt |-> t, run_end_dt |-> Nothing, status |-> "RUNNING",
                source_file |-> source_file, source_row_count |-> Nothing,
                environment |-> environment, load_type |-> load_type,
                error_message |-> None]
        rows == Append(rl, row)
    IN [run_log |-> rows,
        logger |-> [run_id |-> Some(lastrowid(Len(rows))), step_order |-> 0,
                    errors |-> <<>>]]

\* end_run: UPDATE ETL_RUN_LOG ... WHERE run_id = self.run_id
end_run_unrecorded(rl, lg, t, status, source_row_count, error_message) == rl
end_run(rl, lg, t, status, source_row_count, error_message) ==
    IF lg.run_id = Nothing THEN rl
    ELSE [i \in DOMAIN rl |->
            IF Some(i) = lg.run_id
            THEN [rl[i] EXCEPT !.run_end_dt = Some(t), !.status = status,
                               !.source_row_count = source_row_count,
                               !.error_message = error_message]
            ELSE rl[i]]

\* step, up to the yield: INSERT INTO ETL_STEP_LOG; run_id is NOT NULL
step_enter(sl, lg, t, step_name) ==
    LET order == lg.step_order + 1
        entered == [lg EXCEPT !.step_order = order]
    IN IF lg.run_id = Nothing
       THEN [step_log |-> sl, logger |-> entered, opened |-> <<>>,
             signal |-> IntegrityError]
       ELSE LET row == [run_id |-> lg.run_id, step_name |-> step_name,
                        step_order |-> order, step_start_dt |-> t,
                        step_end_dt |-> Nothing, status |-> "RUNNING",
                        rows_read |-> 0, rows_inserted |-> 0, rows_updated |-> 0,
                        rows_rejected |-> 0, error_message |-> None]
                rows == Append(sl, row)
            IN [step_log |-> rows, logger |-> entered,
                opened |-> <<[step_log_id |-> lastrowid(Len(rows)),
                              step_name |-> step_name, metrics |-> StepMetrics]>>,
                signal |-> NoSignal]

\* the UPDATE ETL_STEP_LOG of the finally block
close_step(sl, sc, t, status, error_msg) ==
    [i \in DOMAIN sl |->
        IF i = sc.step_log_id
        THEN [sl[i] EXCEPT !.step_end_dt = Some(t), !.status = status,
                           !.rows_read = sc.metrics.rows_read,
                           !.rows_inserted = sc.metrics.rows_inserted,
                           !.rows_updated = sc.metrics.rows_updated,
                           !.rows_rejected = sc.metrics.rows_rejected,
                           !.error_message = error_msg]
        ELSE sl[i]]

\* step, from the yield on: try / except Exception / finally.  An exception
\* that is not an Exception passes the except clause with `status` and
\* `error_msg` unassigned, and the finally block fails reading `status`
\* before it executes the UPDATE.
step_exit(sl, sc, t, out) ==
    IF out.kind = "return"
    THEN [step_log |-> close_step(sl, sc, t, "SUCCESS", None), signal |-> NoSignal]
    ELSE IF out.kind \in ExceptionKinds
    THEN [step_log |-> close_step(sl, sc, t, "FAILED", out.msg), signal |-> out]
    ELSE [step_log |-> sl, signal |-> UnboundLocalError]

\* log_error: self.errors.append(error), then INSERT INTO ETL_ERROR_LOG;
\* run_id is NOT NULL
log_error(el, lg, t, step_name, error) ==
    LET kept == [lg EXCEPT !.errors = Append(@, error)]
    IN IF lg.run_id = Nothing
       THEN [error_log |-> el, logger |-> kept, signal |-> IntegrityError]
       ELSE [error_log |-> Append(el, [run_id |-> lg.run_id, step_name |-> step_name,
                                        error_dt |-> t,
                                        source_row_num |-> error.source_row_num,
                                        error_type |-> error.error_type,
                                        error_message |-> error.error_message,
                                        column_name |-> error.column_name,
                                        column_value |-> error.column_value,
                                        source_data |-> error.source_data]),
             logger |-> kept, signal |-> NoSignal]

\* ErrorRecord handed to log_error
ErrorRecord(source_row_num, error_type, error_message, column_name, column_value) ==
    [source_row_num |-> source_row_num, error_type |-> error_type,
     error_message |-> error_message, column_name |-> column_name,
     column_value |-> column_value, source_data |-> None]

\* datetime.now() moves on
tick == clock + 1

-----------------------------------------------------------------------------
(* transform.py *)

Whitespace == {" ", "\t", "\n", "\r"}
Digits == {"0", "1", "2", "3", "4", "5", "6", "7", "8", "9"}

digit(c) ==
    CASE c = "0" -> 0 [] c = "1" -> 1 [] c = "2" -> 2 [] c = "3" -> 3
      [] c = "4" -> 4 [] c = "5" -> 5 [] c = "6" -> 6 [] c = "7" -> 7
      [] c = "8" -> 8 [] c = "9" -> 9

\* str.strip()
RECURSIVE lstrip(_)
lstrip(s) == IF s # <<>> /\ Head(s) \in Whitespace THEN lstrip(Tail(s)) ELSE s

RECURSIVE rstrip(_)
rstrip(s) ==
    IF s # <<>> /\ s[Len(s)] \in Whitespace THEN rstrip(SubSeq(s, 1, Len(s) - 1)) ELSE s

strip(s) == rstrip(lstrip(s))

\* s[:n]
prefix(s, n) == SubSeq(s, 1, IF Len(s) < n THEN Len(s) ELSE n)

\* the fields of s between occurrences of the character sep
RECURSIVE split(_, _)
split(s, sep) ==
    IF \A i \in DOMAIN s : s[i] # sep THEN <<s>>
    ELSE LET i == CHOOSE j \in DOMAIN s : s[j] = sep /\ \A k \in 1..(j - 1) : s[k] # sep
         IN <<SubSeq(s, 1, i - 1)>> \o split(SubSeq(s, i + 1, Len(s)), sep)

\* the directives of datetime.strptime, as _strptime's regular expressions
\* match them: %Y is \d\d\d\d, %m is 1[0-2]|0[1-9]|[1-9], %d is
\* 3[01]|[12]\d|0[1-9]|[1-9]| [1-9]
matches_Y(f) == Len(f) = 4 /\ \A i \in 1..4 : f[i] \in Digits

matches_m(f) ==
    \/ Len(f) = 1 /\ f[1] \in Digits \ {"0"}
    \/ Len(f) = 2 /\ f[1] = "1" /\ f[2] \in {"0", "1", "2"}
    \/ Len(f) = 2 /\ f[1] = "0" /\ f[2] \in Digits \ {"0"}

matches_d(f) ==
    \/ Len(f) = 1 /\ f[1] \in Digits \ {"0"}
    \/ Len(f) = 2 /\ f[1] = "3" /\ f[2] \in {"0", "1"}
    \/ Len(f) = 2 /\ f[1] \in {"1", "2"} /\ f[2] \in Digits
    \/ Len(f) = 2 /\ f[1] \in {"0", " "} /\ f[2] \in Digits \ {"0"}

\* int() of a matched field
RECURSIVE number(_)
number(f) ==
    IF f = <<>> THEN 0
    ELSE IF f[Len(f)] = " " THEN 0
    ELSE number(SubSeq(f, 1, Len(f) - 1)) * 10 + digit(f[Len(f)])

is_leap(y) == (y % 4 = 0 /\ y % 100 # 0) \/ y % 400 = 0

days_in_month(y, m) ==
    IF m = 2 THEN (IF is_leap(y) THEN 29 ELSE 28)
    ELSE IF m \in {4, 6, 9, 11} THEN 30 ELSE 31

\* datetime(year, month, day) raises ValueError outside the calendar
valid_date(y, m, d) == y >= 1 /\ m \in 1..12 /\ d >= 1 /\ d <= days_in_month(y, m)

NoDate == [ok |-> FALSE, year |-> 0, month |-> 0, day |-> 0]

\* datetime.strptime(s, fmt) for a format of the three directives in the
\* order given by (iy, im, id), separated by sep; ok is FALSE for ValueError
strptime(s, sep, iy, im, id) ==
    LET parsed(f) ==
            IF Len(f) = 3 /\ matches_Y(f[iy]) /\ matches_m(f[im]) /\ matches_d(f[id])
               /\ valid_date(number(f[iy]), number(f[im]), number(f[id]))
            THEN [ok |-> TRUE, year |-> number(f[iy]), month |-> number(f[im]),
                  day |-> number(f[id])]
            ELSE NoDate
    IN parsed(split(s, sep))

\* int(dt.strftime("%Y%m%d"))
yyyymmdd(dt) == dt.year * 10000 + dt.month * 100 + dt.day

\* create_date_key: "%Y-%m-%d", then "%m/%d/%Y", then "%Y/%m/%d" on the first
\* ten characters of the stripped value
create_date_key(date_str) ==
    IF is_falsy(date_str) THEN -1
    ELSE LET first(ymd, mdy, ymd_slash) ==
                 IF ymd.ok THEN yyyymmdd(ymd)
                 ELSE IF mdy.ok THEN yyyymmdd(mdy)
                 ELSE IF ymd_slash.ok THEN yyyymmdd(ymd_slash)
                 ELSE -1
             formats(s) == first(strptime(s, "-", 1, 2, 3), strptime(s, "/", 3, 1, 2),
                                 strptime(s, "/", 1, 2, 3))
         IN formats(prefix(strip(date_str), 10))

\* %H, %M and %S match one or two digits up to 23, 59 and 61; datetime()
\* raises ValueError for a second above 59
matches_clock(f, max) ==
    Len(f) \in {1, 2} /\ (\A i \in DOMAIN f : f[i] \in Digits) /\ number(f) <= max

\* datetime.strptime(s, fmt) for fmt "%Y-%m-%d" + t_sep + "%H:%M:%S" or, when
\* seconds is FALSE, "%H:%M"; t_sep is "T" or a space, which in a format
\* stands for any run of whitespace
strptime_datetime(s, t_sep, seconds) ==
    LET failed == [ok |-> FALSE, year |-> 0, month |-> 0, day |-> 0,
                   hour |-> 0, minute |-> 0, second |-> 0]
        built(Y, m, d, hms) ==
            IF /\ matches_Y(Y) /\ matches_m(m) /\ matches_d(d)
               /\ valid_date(number(Y), number(m), number(d))
               /\ Len(hms) = (IF seconds THEN 3 ELSE 2)
               /\ matches_clock(hms[1], 23)
               /\ matches_clock(hms[2], 59)
               /\ seconds => matches_clock(hms[3], 59)
            THEN [ok |-> TRUE, year |-> number(Y), month |-> number(m),
                  day |-> number(d), hour |-> number(hms[1]),
                  minute |-> number(hms[2]),
                  second |-> IF seconds THEN number(hms[3]) ELSE 0]
            ELSE failed
        \* the day ends before the first whitespace; " 5" is a day
        day_end(rest) ==
            IF rest # <<>> /\ rest[1] = " " THEN 2
            ELSE IF \A i \in DOMAIN rest : rest[i] \notin Whitespace THEN Len(rest)
            ELSE (CHOOSE i \in DOMAIN rest :
                     /\ rest[i] \in Whitespace
                     /\ \A j \in 1..(i - 1) : rest[j] \notin Whitespace) - 1
        spaced(Y, m, rest, n) ==
            IF n < Len(rest) /\ rest[n + 1] \in Whitespace
            THEN built(Y, m, SubSeq(rest, 1, n),
                       split(lstrip(SubSeq(rest, n + 1, Len(rest))), ":"))
            ELSE failed
        \* the format is matched with re.IGNORECASE: "t" separates as "T" does
        either_case(rest) ==
            [i \in DOMAIN rest |-> IF rest[i] = "t" THEN "T" ELSE rest[i]]
        lettered(Y, m, halves) ==
            IF Len(halves) = 2 THEN built(Y, m, halves[1], split(halves[2], ":"))
            ELSE failed
        dated(f) ==
            IF Len(f) # 3 THEN failed
            ELSE IF t_sep = "T" THEN lettered(f[1], f[2], split(either_case(f[3]), "T"))
            ELSE spaced(f[1], f[2], f[3], day_end(f[3]))
    IN dated(split(s, "-"))

\* create_time_key: minutes from midnight; a value of ten characters is
\* taken for a date without a time
create_time_key(datetime_str) ==
    IF is_falsy(datetime_str) THEN -1
    ELSE LET key(dt) == dt.hour * 60 + dt.minute
             first(a, b, c) ==
                 IF a.ok THEN key(a)
                 ELSE IF b.ok THEN key(b)
                 ELSE IF c.ok THEN key(c)
                 ELSE -1
             formats(dt_str) ==
                 IF Len(dt_str) = 10 THEN 0
                 ELSE first(strptime_datetime(dt_str, " ", TRUE),
                            strptime_datetime(dt_str, "T", TRUE),
                            strptime_datetime(dt_str, " ", FALSE))
         IN formats(strip(datetime_str))

\* date.toordinal(): the days from 0001-01-01, which is day 1
toordinal(dt) ==
    LET before_year(y) == 365 * y + y \div 4 - y \div 100 + y \div 400
        before_month(m) ==
            <<0, 31, 59, 90, 120, 151, 181, 212, 243, 273, 304, 334>>[m]
            + (IF m > 2 /\ is_leap(dt.year) THEN 1 ELSE 0)
    IN before_year(dt.year - 1) + before_month(dt.month) + dt.day

\* round(diff, 2) of diff = seconds / 60, in hundredths of a minute; with
\* whole seconds no value lies halfway between two hundredths
round_2_down(seconds) == (seconds \div 60) * 100 + ((seconds % 60) * 10) \div 6
round_2(seconds) == (seconds \div 60) * 100 + ((seconds % 60) * 10 + 3) \div 6

\* calculate_time_diff_minutes: each endpoint is parsed with the first of
\* "%Y-%m-%d", "%Y-%m-%d %H:%M:%S", "%Y-%m-%dT%H:%M:%S" that accepts it; the
\* result is None or a number of minutes, held in hundredths
calculate_time_diff_minutes(start_dt, end_dt) ==
    LET at_midnight(d) ==
            [ok |-> d.ok, year |-> d.year, month |-> d.month, day |-> d.day,
             hour |-> 0, minute |-> 0, second |-> 0]
        first(a, b, c) == IF a.ok THEN at_midnight(a) ELSE IF b.ok THEN b ELSE c
        parse(s) == first(strptime(s, "-", 1, 2, 3), strptime_datetime(s, " ", TRUE),
                          strptime_datetime(s, "T", TRUE))
        diff(seconds) == IF seconds >= 0 THEN Some(round_2(seconds)) ELSE Nothing
        between(start, end) ==
            IF start.ok /\ end.ok
            THEN diff((toordinal(end) - toordinal(start)) * 86400
                      + (end.hour - start.hour) * 3600
                      + (end.minute - start.minute) * 60
                      + (end.second - start.second))
            ELSE Nothing
    IN IF is_falsy(start_dt) \/ is_falsy(end_dt) THEN Nothing
       ELSE between(parse(strip(start_dt)), parse(strip(end_dt)))

\* float(s) of a decimal literal: an optional sign, digits and at most one
\* point, whitespace around it ignored; the value is mantissa / 10^places
\* with no trailing zero in the fraction; ok is FALSE for ValueError
to_float(s) ==
    LET unsigned(t) == IF t # <<>> /\ t[1] \in {"+", "-"} THEN Tail(t) ELSE t
        negative(t) == t # <<>> /\ t[1] = "-"
        all_digits(f) == \A i \in DOMAIN f : f[i] \in Digits
        significant(f) ==
            IF \A i \in DOMAIN f : f[i] = "0" THEN <<>>
            ELSE SubSeq(f, 1, CHOOSE i \in DOMAIN f :
                                 f[i] # "0" /\ \A j \in (i + 1)..Len(f) : f[j] = "0")
        value(neg, whole, fraction) ==
            [ok |-> TRUE,
             mantissa |-> (IF neg THEN -1 ELSE 1) * number(whole \o fraction),
             places |-> Len(fraction)]
        literal(neg, f) ==
            IF Len(f) \in {1, 2} /\ (\A i \in DOMAIN f : all_digits(f[i]))
               /\ (\E i \in DOMAIN f : f[i] # <<>>)
            THEN value(neg, f[1], IF Len(f) = 2 THEN significant(f[2]) ELSE <<>>)
            ELSE [ok |-> FALSE, mantissa |-> 0, places |-> 0]
        signed(t) == literal(negative(t), split(unsigned(t), "."))
    IN signed(strip(s))

\* parse_flag: 1 when the stripped, lower-cased value is one of yes_values
YesValues == {<<"y", "e", "s">>, <<"y">>, <<"t", "r", "u", "e">>, <<"1">>,
              <<"1", ".", "0">>}

parse_flag(value, yes_values) ==
    LET lower(c) ==
            CASE c = "Y" -> "y" [] c = "E" -> "e" [] c = "S" -> "s" [] c = "T" -> "t"
              [] c = "R" -> "r" [] c = "U" -> "u" [] c = "N" -> "n" [] c = "O" -> "o"
              [] OTHER -> c
        folded(str_val) == [i \in DOMAIN str_val |-> lower(str_val[i])]
    IN IF value = None THEN 0
       ELSE IF folded(strip(value)) \in yes_values THEN 1 ELSE 0

\* clean_text
clean_text(value) ==
    LET or_none(cleaned) == IF cleaned = <<>> THEN None ELSE cleaned
    IN IF value = None THEN None ELSE or_none(strip(value))

\* the text columns of the source that transform_record cleans, and the key
\* each gets in cleaned_data
TextColumns ==
    <<"INCIDENT_DT", "INCIDENT_COUNTY", "CHIEF_COMPLAINT_DISPATCH",
      "CHIEF_COMPLAINT_ANATOMIC_LOC", "PRIMARY_SYMPTOM",
      "PROVIDER_IMPRESSION_PRIMARY", "DISPOSITION_ED", "DISPOSITION_HOSPITAL",
      "DESTINATION_TYPE", "PROVIDER_TYPE_STRUCTURE", "PROVIDER_TYPE_SERVICE",
      "PROVIDER_TYPE_SERVICE_LEVEL", "UNIT_NOTIFIED_BY_DISPATCH_DT",
      "UNIT_ARRIVED_ON_SCENE_DT", "UNIT_ARRIVED_TO_PATIENT_DT", "UNIT_LEFT_SCENE_DT",
      "PATIENT_ARRIVED_DESTINATION_DT">>

CleanedKeys ==
    <<"incident_dt", "incident_county", "chief_complaint_dispatch",
      "chief_complaint_anatomic_loc", "primary_symptom",
      "provider_impression_primary", "disposition_ed", "disposition_hospital",
      "destination_type", "provider_type_structure", "provider_type_service",
      "provider_type_service_level", "unit_notified_dt", "unit_arrived_scene_dt",
      "unit_arrived_patient_dt", "unit_left_scene_dt", "patient_arrived_dest_dt">>

\* the flag and numeric columns of the source
OtherColumns ==
    {"INJURY_FLG", "NALOXONE_GIVEN_FLG", "MEDICATION_GIVEN_OTHER_FLG",
     "PROVIDER_TO_SCENE_MINS", "PROVIDER_TO_DESTINATION_MINS"}

SourceColumns == {TextColumns[i] : i \in DOMAIN TextColumns} \cup OtherColumns
AuditColumns == {"stg_load_id", "_source_file", "_source_row_num"}

\* transform_record: the cleaned text, flag and numeric columns with the
\* source tracking columns, the derived keys and measures, the errors and
\* the verdict
transform_record(record) ==
    LET text == [k \in {CleanedKeys[i] : i \in DOMAIN CleanedKeys} |->
                    LET i == CHOOSE j \in DOMAIN CleanedKeys : CleanedKeys[j] = k
                    IN clean_text(record[TextColumns[i]])]
        \* float(mins) if mins and str(mins).strip() else None; None when
        \* float raises, None when negative
        minutes(mins) ==
            LET parsed(f) ==
                    IF f.ok /\ f.mantissa >= 0 THEN Some(<<f.mantissa, f.places>>)
                    ELSE Nothing
            IN IF is_falsy(mins) \/ strip(mins) = <<>> THEN Nothing
               ELSE parsed(to_float(mins))
        other ==
            [injury_flg |-> parse_flag(record["INJURY_FLG"],
                                       YesValues \ {<<"1", ".", "0">>}),
             naloxone_given_flg |-> parse_flag(record["NALOXONE_GIVEN_FLG"], YesValues),
             medication_given_flg |->
                 parse_flag(record["MEDICATION_GIVEN_OTHER_FLG"], YesValues),
             provider_to_scene_mins |-> minutes(record["PROVIDER_TO_SCENE_MINS"]),
             provider_to_dest_mins |-> minutes(record["PROVIDER_TO_DESTINATION_MINS"]),
             _source_row_num |-> record["_source_row_num"],
             _source_file |-> record["_source_file"]]
        tracked(cleaned) ==
            [k \in DOMAIN cleaned \cup DOMAIN other |->
                IF k \in DOMAIN cleaned THEN cleaned[k] ELSE other[k]]
        validated(cleaned, derived, errors) ==
            [cleaned_data |-> cleaned, derived_data |-> derived, errors |-> errors,
             is_valid |-> \A i \in DOMAIN errors : errors[i].column # "INCIDENT_DT"]
        checked(cleaned, date_key) ==
            validated(cleaned,
                      [date_key |-> date_key,
                       time_of_day_key |-> create_time_key(cleaned["unit_notified_dt"]),
                       dispatch_to_arrival_mins |->
                           calculate_time_diff_minutes(cleaned["unit_notified_dt"],
                                                       cleaned["unit_arrived_scene_dt"]),
                       arrival_to_patient_mins |->
                           calculate_time_diff_minutes(cleaned["unit_arrived_scene_dt"],
                                                       cleaned["unit_arrived_patient_dt"]),
                       scene_time_mins |->
                           calculate_time_diff_minutes(cleaned["unit_arrived_scene_dt"],
                                                       cleaned["unit_left_scene_dt"]),
                       total_call_time_mins |->
                           calculate_time_diff_minutes(cleaned["unit_notified_dt"],
                                                       cleaned["patient_arrived_dest_dt"]),
                       incident_count |-> 1],
                      IF date_key = -1
                      THEN <<[column |-> "INCIDENT_DT", error_type |-> "INVALID_DATE",
                              message |-> Text("Cannot parse date: ")
                                          \o record["INCIDENT_DT"]]>>
                      ELSE <<>>)
        derive(cleaned) == checked(cleaned, create_date_key(cleaned["incident_dt"]))
    IN derive(tracked(text))

-----------------------------------------------------------------------------
(* Source files *)

ISO_DATE == <<"2", "0", "2", "4", "-", "0", "1", "-", "1", "5">>
US_DATE_PADDED == <<" ", "0", "1", "/", "1", "6", "/", "2", "0", "2", "4", " ">>
NOT_A_DATE == <<"N", "/", "A">>
LAKE_PADDED == <<" ", "L", "A", "K", "E">>
FIRE == <<"F", "i", "r", "e">>
SourceFile == Text("ems_runs_2024.csv")

\* a CSV row whose cells are all empty
BlankRecord == [c \in SourceColumns |-> EmptyStr]

\* the rows a source file is made of: an ISO-dated incident, a US-dated one
\* whose cells carry spaces, a row with no incident date, a row whose
\* incident date is not a date
Samples ==
    {[BlankRecord EXCEPT !["INCIDENT_DT"] = ISO_DATE, !["INCIDENT_COUNTY"] = LAKE,
                         !["PROVIDER_TYPE_STRUCTURE"] = FIRE,
                         !["PROVIDER_TYPE_SERVICE"] = ALS],
     [BlankRecord EXCEPT !["INCIDENT_DT"] = US_DATE_PADDED,
                         !["INCIDENT_COUNTY"] = LAKE_PADDED,
                         !["PROVIDER_TYPE_STRUCTURE"] = FIRE],
     [BlankRecord EXCEPT !["INCIDENT_COUNTY"] = MARION],
     [BlankRecord EXCEPT !["INCIDENT_DT"] = NOT_A_DATE, !["INCIDENT_COUNTY"] = LAKE]}

Sources == UNION {[1..n -> Samples] : n \in 0..MaxRows}

\* what main is started with; a missing file has no rows
Configs ==
    {[source |-> s, exists |-> TRUE, batch_size |-> b, full_refresh |-> f] :
        s \in Sources, b \in 1..MaxBatch, f \in BOOLEAN}
    \cup {[source |-> <<>>, exists |-> FALSE, batch_size |-> b, full_refresh |-> f] :
        b \in 1..MaxBatch, f \in BOOLEAN}

-----------------------------------------------------------------------------
(* extract.py, stage.py, load-facts.py *)

\* validate_source_file
validate_source_file(c) ==
    IF c.exists
    THEN [success |-> TRUE, total_rows |-> Len(c.source), error_message |-> None]
    ELSE [success |-> FALSE, total_rows |-> 0,
          error_message |-> Text("File not found")]

\* the chunk extract_csv_chunks yields after `read` rows: the next chunk_size
\* rows, each with its _source_row_num
extract_chunk(source, read, chunk_size) ==
    LET n == IF Len(source) - read < chunk_size THEN Len(source) - read ELSE chunk_size
    IN [i \in 1..n |->
          [c \in SourceColumns \cup {"_source_row_num"} |->
              IF c = "_source_row_num" THEN read + i ELSE source[read + i][c]]]

\* stage_records: one INSERT per record, committed together
stage_records_replacing(stg, records, source_file) ==
    [rows |-> [i \in DOMAIN records |->
                 [c \in SourceColumns \cup AuditColumns |->
                     IF c = "stg_load_id" THEN autoincrement(i - 1)
                     ELSE IF c = "_source_file" THEN source_file
                     ELSE records[i][c]]],
     inserted |-> Len(records)]
stage_records(stg, records, source_file) ==
    [rows |-> stg \o [i \in DOMAIN records |->
                        [c \in SourceColumns \cup AuditColumns |->
                            IF c = "stg_load_id" THEN autoincrement(Len(stg) + i - 1)
                            ELSE IF c = "_source_file" THEN source_file
                            ELSE records[i][c]]],
     inserted |-> Len(records)]

\* SELECT * FROM STG_EMS_INCIDENT LIMIT limit OFFSET offset
select_limit_offset(stg, limit, offset) ==
    IF offset >= Len(stg) THEN <<>>
    ELSE SubSeq(stg, offset + 1, IF offset + limit > Len(stg) THEN Len(stg) ELSE offset + limit)

\* offset += batch_size
advance_skipping(offset, batch_size) == offset + batch_size + 1
advance(offset, batch_size) == offset + batch_size

EmptyFactTable == [rows |-> <<>>, seq |-> 0]

\* truncate_fact_table: DELETE FROM FACT_EMS_INCIDENT keeps sqlite_sequence
truncate_fact_table_keep(f) == f
truncate_fact_table(f) == [f EXCEPT !.rows = <<>>]

\* NULL in an INTEGER column: a value no key takes
NULL == -2

\* the key columns of FACT_EMS_INCIDENT, all NOT NULL, and the dimension each
\* refers to
KeyColumns ==
    [date_key |-> "DIM_DATE", time_of_day_key |-> "DIM_TIME_OF_DAY",
     county_key |-> "DIM_COUNTY", chief_complaint_key |-> "DIM_CHIEF_COMPLAINT",
     anatomic_location_key |-> "DIM_ANATOMIC_LOCATION", symptom_key |-> "DIM_SYMPTOM",
     provider_impression_key |-> "DIM_PROVIDER_IMPRESSION",
     disposition_ed_key |-> "DIM_DISPOSITION",
     disposition_hospital_key |-> "DIM_DISPOSITION",
     destination_type_key |-> "DIM_DESTINATION_TYPE",
     provider_org_key |-> "DIM_PROVIDER_ORGANIZATION",
     service_level_key |-> "DIM_SERVICE_LEVEL"]

\* `finally: conn.close()` reached before conn.commit(): the rows executemany
\* wrote are rolled back
close_uncommitted_keep(committed, written) == written
close_uncommitted(committed, written) == committed

\* load_fact_batch: executemany and one commit; the INSERT of a row raises
\* when a key column is NULL, or when the store fails at that row (fault)
load_fact_batch(f, records, source_file, fault) ==
    LET row(i) ==
            [c \in DOMAIN records[i] \cup {"ems_incident_key", "_source_file"} |->
                IF c = "ems_incident_key" THEN autoincrement(f.seq + i - 1)
                ELSE IF c = "_source_file" THEN source_file
                ELSE records[i][c]]
        written(n) == [rows |-> f.rows \o [i \in 1..n |-> row(i)], seq |-> f.seq + n]
        executemany(raising) ==
            IF raising = {}
            THEN [fact |-> written(Len(records)), inserted |-> Len(records),
                  raised |-> FALSE]
            ELSE [fact |-> close_uncommitted(
                              f, written((CHOOSE i \in raising :
                                             \A j \in raising : i <= j) - 1)),
                  inserted |-> NoResult, raised |-> TRUE]
    IN IF records = <<>> THEN [fact |-> f, inserted |-> 0, raised |-> FALSE]
       ELSE executemany({i \in DOMAIN records :
                            \/ i = fault
                            \/ \E c \in DOMAIN KeyColumns : records[i][c] = NULL})

-----------------------------------------------------------------------------
(* main.py: run_etl *)

\* the store after a resolver call
after(r) == Store(r.dim, r.seq, r.cache)

\* the resolver calls of the fact_record literal, in the order written
resolver_calls(c) ==
    <<[method |-> "get_or_create_county", a |-> c["incident_county"], b |-> None],
      [method |-> "get_or_create_complaint", a |-> c["chief_complaint_dispatch"], b |-> None],
      [method |-> "get_or_create_anatomic", a |-> c["chief_complaint_anatomic_loc"], b |-> None],
      [method |-> "get_or_create_symptom", a |-> c["primary_symptom"], b |-> None],
      [method |-> "get_or_create_impression", a |-> c["provider_impression_primary"], b |-> None],
      [method |-> "get_or_create_disposition", a |-> c["disposition_ed"], b |-> None],
      [method |-> "get_or_create_disposition", a |-> c["disposition_hospital"], b |-> None],
      [method |-> "get_or_create_destination", a |-> c["destination_type"], b |-> None],
      [method |-> "get_or_create_provider_org", a |-> c["provider_type_structure"],
       b |-> c["provider_type_service"]],
      [method |-> "get_or_create_service_level", a |-> c["provider_type_service_level"],
       b |-> None]>>

\* dim_loader.<method>(a) or, for the provider organization, (a, b)
invoke(db, m) ==
    CASE m.method = "get_or_create_county" -> get_or_create_county(db, m.a)
      [] m.method = "get_or_create_complaint" -> get_or_create_complaint(db, m.a)
      [] m.method = "get_or_create_anatomic" -> get_or_create_anatomic(db, m.a)
      [] m.method = "get_or_create_symptom" -> get_or_create_symptom(db, m.a)
      [] m.method = "get_or_create_impression" -> get_or_create_impression(db, m.a)
      [] m.method = "get_or_create_disposition" -> get_or_create_disposition(db, m.a)
      [] m.method = "get_or_create_destination" -> get_or_create_destination(db, m.a)
      [] m.method = "get_or_create_provider_org" ->
            get_or_create_provider_org(db, m.a, m.b)
      [] m.method = "get_or_create_service_level" -> get_or_create_service_level(db, m.a)

\* the calls from the i-th on, each on the store the one before left; a call
\* that raises ends the evaluation
RECURSIVE resolve_in_order(_, _, _)
resolve_in_order(acc, calls, i) ==
    IF i > Len(calls) \/ acc.raised THEN acc
    ELSE LET r == invoke(acc.db, calls[i])
         IN resolve_in_order([db |-> after(r), raised |-> r.raised,
                              keys |-> Append(acc.keys, r.result)],
                             calls, i + 1)

\* the rows _populate_date_dimension and _populate_time_dimension insert:
\* one per day from 2014-01-01 to 2030-12-31, date_key YYYYMMDD, and one per
\* minute of the day, time_of_day_key 0..1439
calendar_row(s, key) ==
    IF s = "DIM_DATE"
    THEN /\ key \div 10000 \in 2014..2030
         /\ (key \div 100) % 100 \in 1..12
         /\ valid_date(key \div 10000, (key \div 100) % 100, key % 100)
    ELSE key \in 0..1439

\* SELECT 1 FROM <table s> WHERE <its key column> = key finds a row
has_row(dm, st, s, key) ==
    IF s \in StaticDims
    THEN IF key = UnknownKey THEN st[s].unknown
         ELSE st[s].populated /\ calendar_row(s, key)
    ELSE \E x \in dm[s] : x.key = key

\* the fact_record literal of the loop body
fact_record(db, t) ==
    LET record(c, key) ==
            [date_key |-> t.derived_data.date_key,
             time_of_day_key |-> t.derived_data.time_of_day_key,
             county_key |-> key[1],
             chief_complaint_key |-> key[2],
             anatomic_location_key |-> key[3],
             symptom_key |-> key[4],
             provider_impression_key |-> key[5],
             disposition_ed_key |-> key[6],
             disposition_hospital_key |-> key[7],
             destination_type_key |-> key[8],
             provider_org_key |-> key[9],
             service_level_key |-> key[10],
             provider_to_scene_mins |-> c["provider_to_scene_mins"],
             provider_to_dest_mins |-> c["provider_to_dest_mins"],
             dispatch_to_arrival_mins |-> t.derived_data.dispatch_to_arrival_mins,
             arrival_to_patient_mins |-> t.derived_data.arrival_to_patient_mins,
             scene_time_mins |-> t.derived_data.scene_time_mins,
             total_call_time_mins |-> t.derived_data.total_call_time_mins,
             injury_flg |-> c["injury_flg"],
             naloxone_given_flg |-> c["naloxone_given_flg"],
             medication_given_flg |-> c["medication_given_flg"],
             incident_count |-> t.derived_data.incident_count,
             unit_notified_dt |-> c["unit_notified_dt"],
             unit_arrived_scene_dt |-> c["unit_arrived_scene_dt"],
             unit_arrived_patient_dt |-> c["unit_arrived_patient_dt"],
             unit_left_scene_dt |-> c["unit_left_scene_dt"],
             patient_arrived_dest_dt |-> c["patient_arrived_dest_dt"],
             _source_row_num |-> c["_source_row_num"]]
        literal(done) ==
            [db |-> done.db,
             raised |-> done.raised,
             record |-> record(t.cleaned_data,
                               [i \in 1..10 |-> IF i <= Len(done.keys) THEN done.keys[i]
                                                ELSE NoResult])]
    IN literal(resolve_in_order([db |-> db, raised |-> FALSE, keys |-> <<>>],
                                resolver_calls(t.cleaned_data), 1))

\* the body of `for row in rows:` for one row; acc carries the store,
\* fact_records, the rejected count of the batch and the staged rows visited
loop_body(acc, row) ==
    LET kept(f, seen) ==
            [db |-> f.db, raised |-> f.raised,
             fact_records |-> IF f.raised THEN acc.fact_records
                              ELSE Append(acc.fact_records, f.record),
             rejected |-> acc.rejected, visited |-> seen]
        decided(t, seen) ==
            IF ~t.is_valid
            THEN [acc EXCEPT !.rejected = @ + 1, !.visited = seen]
            ELSE kept(fact_record(acc.db, t), seen)
    IN decided(transform_record(row), Append(acc.visited, row["stg_load_id"]))

\* `for row in rows:` from row i on
RECURSIVE for_row_in_rows(_, _, _)
for_row_in_rows(acc, rows, i) ==
    IF i > Len(rows) \/ acc.raised THEN acc
    ELSE for_row_in_rows(loop_body(acc, rows[i]), rows, i + 1)

\* sys.exit(0 if success else 1)
exit_status_zero(success) == 0
exit_status(success) == IF success THEN 0 ELSE 1

\* history: the database as an execution of main finds it, and how the
\* execution before it went
NoHistory ==
    [staging |-> <<>>, fact |-> EmptyFactTable, dim |-> [d \in CatDims |-> {}],
     seq |-> [d \in CatDims |-> 0], ret |-> "", full_refresh |-> TRUE]

\* the locals of run_etl before it is called; conn is the connection of
\* Step 5: "none" before sqlite3.connect, then "open" until conn.close()
NoRun ==
    [run_id |-> 0, conn |-> "none", total_rows |-> 0, staged_count |-> 0, read |-> 0,
     offset |-> 0, fact_count |-> 0, rejected_count |-> 0, staging_total |-> 0,
     visited |-> <<>>, steps |-> <<>>, failed |-> "", error |-> None,
     ret |-> "", exit_code |-> 0, before |-> NoHistory]

\* the steps of run_etl in the order of the code
StepOrder == <<"validate", "init_staging", "stage", "warehouse", "load", "verify">>

\* faults of the store while a step runs (sqlite3.OperationalError), by the
\* call that meets them
OperationalError == [kind |-> "OperationalError", msg |-> Text("database is locked")]

\* history: step pc has begun
begun(r) == IF r.steps # <<>> /\ r.steps[Len(r.steps)] = pc THEN r.steps
            ELSE Append(r.steps, pc)

\* the step goes on to the next position
Continue(r, next) ==
    /\ run' = [r EXCEPT !.steps = begun(r)]
    /\ pc' = next
    /\ UNCHANGED <<run_log, clock>>

\* except Exception as e: logger.end_run("FAILED", error_message=str(e));
\* return False
Except(r, e) ==
    /\ run_log' = end_run(run_log, logger, tick, "FAILED", Nothing, e.msg)
    /\ clock' = tick
    /\ run' = [r EXCEPT !.steps = begun(r), !.failed = pc, !.error = e.msg,
                        !.ret = "False"]
    /\ pc' = "returned"

\* lines 81-93: logger = ETLLogger(db_path); run_id = logger.start_run(...)
StartRun ==
    /\ pc = "start"
    /\ LET new == start_run(run_log, tick, SourceFile, "dev",
                            IF cfg.full_refresh THEN "full" ELSE "incremental")
       IN /\ run_log' = new.run_log
          /\ logger' = new.logger
          /\ run' = [run EXCEPT !.run_id = CHOOSE n \in new.logger.run_id : TRUE]
    /\ clock' = tick
    /\ pc' = "validate"
    /\ UNCHANGED <<step_log, error_log, scopes, signal, cfg, staging, fact, dimVars>>

\* Step 1: validate_source_file; `if not validation.success: raise ValueError`
ValidateSource ==
    /\ pc = "validate"
    /\ LET validation == validate_source_file(cfg)
       IN IF ~validation.success
          THEN Except(run, [kind |-> "ValueError",
                            msg |-> Text("Source validation failed: ")
                                    \o validation.error_message])
          ELSE Continue([run EXCEPT !.total_rows = validation.total_rows],
                        "init_staging")
    /\ UNCHANGED <<logger, step_log, error_log, scopes, signal, cfg, staging, fact,
                   dimVars>>

\* Step 2: init_staging_table drops and recreates STG_EMS_INCIDENT
InitStaging(fault) ==
    /\ pc = "init_staging"
    /\ IF fault
       THEN Except(run, OperationalError) /\ UNCHANGED staging
       ELSE Continue([run EXCEPT !.staged_count = 0], "stage") /\ staging' = <<>>
    /\ UNCHANGED <<logger, step_log, error_log, scopes, signal, cfg, fact, dimVars>>

\* Step 3: one turn of `for chunk, start_row in extract_csv_chunks(...)`,
\* or the end of the iteration
StageChunk(fault) ==
    /\ pc = "stage"
    /\ IF run.read >= Len(cfg.source)
       THEN /\ ~fault
            /\ Continue(run, "warehouse")
            /\ UNCHANGED staging
       ELSE LET chunk == extract_chunk(cfg.source, run.read, cfg.batch_size)
                staged == stage_records(staging, chunk, SourceFile)
            IN IF fault
               THEN Except([run EXCEPT !.read = @ + Len(chunk)], OperationalError)
                    /\ UNCHANGED staging
               ELSE /\ Continue([run EXCEPT !.read = @ + Len(chunk),
                                            !.staged_count = @ + staged.inserted],
                                "stage")
                    /\ staging' = staged.rows
    /\ UNCHANGED <<logger, step_log, error_log, scopes, signal, cfg, fact, dimVars>>

\* Step 4: DimensionLoader(db_path), init_fact_table, truncate_fact_table on
\* full refresh, then the locals of Step 5 up to the loop
InitWarehouse(fault) ==
    /\ pc = "warehouse"
    /\ fault \in {"none", "DimensionLoader", "init_fact_table"}
    /\ IF fault = "DimensionLoader"
       THEN Except(run, OperationalError) /\ UNCHANGED <<dim, static, loader, fact>>
       ELSE LET new == DimensionLoader(dim, static, seq)
            IN /\ dim' = new.dim
               /\ static' = new.static
               /\ loader' = [loader EXCEPT ![1] = new.self]
               /\ IF fault = "init_fact_table"
                  THEN Except(run, OperationalError) /\ UNCHANGED fact
                  ELSE /\ fact' = IF cfg.full_refresh THEN truncate_fact_table(fact)
                                  ELSE fact
                       /\ Continue([run EXCEPT !.conn = "open",
                                               !.offset = 0, !.fact_count = 0,
                                               !.rejected_count = 0,
                                               !.staging_total = Len(staging)],
                                   "load")
    /\ UNCHANGED <<logger, step_log, error_log, scopes, signal, cfg, staging,
                   seq, last, returned>>

\* Step 5: one turn of `while True:`
LoadBatch(fault) ==
    LET turn(body, seen, loaded) ==
            /\ dim' = body.db.dim
            /\ seq' = body.db.seq
            /\ loader' = [loader EXCEPT ![1].cache = body.db.cache]
            /\ IF body.raised
               THEN /\ ~fault
                    /\ Except(seen, [kind |-> "IntegrityError",
                                     msg |-> Text("UNIQUE constraint failed")])
                    /\ UNCHANGED fact
               ELSE IF body.fact_records = <<>>
               THEN /\ ~fault
                    /\ Continue([seen EXCEPT !.offset = advance(@, cfg.batch_size)],
                                "load")
                    /\ UNCHANGED fact
               ELSE IF loaded.raised
               THEN Except(seen, OperationalError) /\ fact' = loaded.fact
               ELSE /\ fact' = loaded.fact
                    /\ Continue([seen EXCEPT !.fact_count = @ + loaded.inserted,
                                             !.offset = advance(@, cfg.batch_size)],
                                "load")
        transformed(body) ==
            turn(body,
                 [run EXCEPT !.rejected_count = @ + body.rejected,
                             !.visited = body.visited],
                 load_fact_batch(fact, body.fact_records, SourceFile,
                                 IF fault THEN Len(body.fact_records) ELSE 0))
        fetched(rows) ==
            IF rows = <<>>
            THEN \* break; conn.close()
                 /\ ~fault
                 /\ Continue([run EXCEPT !.conn = "closed"], "verify")
                 /\ UNCHANGED <<dim, seq, loader, fact>>
            ELSE transformed(for_row_in_rows(
                                [db |-> StoreOf(1), raised |-> FALSE,
                                 fact_records |-> <<>>, rejected |-> 0,
                                 visited |-> run.visited],
                                rows, 1))
    IN /\ pc = "load"
       /\ fetched(select_limit_offset(staging, cfg.batch_size, run.offset))
       /\ UNCHANGED <<logger, step_log, error_log, scopes, signal, cfg, staging,
                      static, last, returned>>

\* Step 6: get_fact_summary, get_dimension_counts, then
\* logger.end_run("SUCCESS", total_rows); return True
Verify(fault) ==
    /\ pc = "verify"
    /\ IF fault
       THEN Except(run, OperationalError)
       ELSE /\ run_log' = end_run(run_log, logger, tick, "SUCCESS",
                                  Some(run.total_rows), None)
            /\ clock' = tick
            /\ run' = [run EXCEPT !.steps = begun(run), !.ret = "True"]
            /\ pc' = "returned"
    /\ UNCHANGED <<logger, step_log, error_log, scopes, signal, cfg, staging, fact,
                   dimVars>>

\* main: success = run_etl(...); sys.exit(0 if success else 1)
Exit ==
    /\ pc = "returned"
    /\ run' = [run EXCEPT !.exit_code = exit_status(run.ret = "True")]
    /\ pc' = "exited"
    /\ UNCHANGED <<logVars, cfg, staging, fact, dimVars>>

\* main is started on a new database: no dimension rows, no audit rows, no
\* staged rows and no facts
RunInit ==
    /\ dim = [d \in CatDims |-> {}]
    /\ seq = [d \in CatDims |-> 0]
    /\ static = [s \in StaticDims |-> [unknown |-> FALSE, populated |-> FALSE]]
    /\ loader = [l \in Loaders |-> NoLoader]
    /\ last = [l |-> 0, d |-> "", arg |-> <<>>,
               result |-> NoResult, raised |-> FALSE]
    /\ returned = [x \in {} |-> 0]
    /\ run_log = <<>>
    /\ step_log = <<>>
    /\ error_log = <<>>
    /\ logger = ETLLogger
    /\ scopes = <<>>
    /\ signal = NoSignal
    /\ clock = 0
    /\ pc = "start"
    /\ cfg \in Configs
    /\ staging = <<>>
    /\ fact = EmptyFactTable
    /\ run = NoRun

RunNext ==
    \/ StartRun
    \/ ValidateSource
    \/ \E fault \in BOOLEAN : InitStaging(fault)
    \/ \E fault \in BOOLEAN : StageChunk(fault)
    \/ \E fault \in {"none", "DimensionLoader", "init_fact_table"} : InitWarehouse(fault)
    \/ \E fault \in BOOLEAN : LoadBatch(fault)
    \/ \E fault \in BOOLEAN : Verify(fault)
    \/ Exit

\* one execution of main
SpecRun == RunInit /\ [][RunNext]_vars

-----------------------------------------------------------------------------
(* main executed again on the database the execution before it left *)

OLD_DATE == <<"2", "0", "1", "3", "-", "1", "2", "-", "3", "1">>
NOTIFIED_AT == <<"2", "0", "2", "4", "-", "0", "1", "-", "1", "5", " ",
                 "1", "4", ":", "3", "0", ":", "0", "0">>

\* an incident of 2024, an incident of 2013, a row with no incident date
RerunSamples ==
    {[BlankRecord EXCEPT !["INCIDENT_DT"] = ISO_DATE, !["INCIDENT_COUNTY"] = LAKE,
                         !["PROVIDER_TYPE_STRUCTURE"] = FIRE,
                         !["UNIT_NOTIFIED_BY_DISPATCH_DT"] = NOTIFIED_AT],
     [BlankRecord EXCEPT !["INCIDENT_DT"] = OLD_DATE, !["INCIDENT_COUNTY"] = MARION],
     [BlankRecord EXCEPT !["INCIDENT_COUNTY"] = LAKE]}

RerunConfigs ==
    {[source |-> s, exists |-> TRUE, batch_size |-> b, full_refresh |-> f] :
        s \in UNION {[1..n -> RerunSamples] : n \in 0..MaxRows},
        b \in 1..MaxBatch, f \in BOOLEAN}

\* a new process runs main on the same source file, with --full or
\* --incremental: nothing of the process before it is left but the database
Restart(full_refresh) ==
    /\ pc = "exited"
    /\ Len(run_log) < MaxRuns
    /\ pc' = "start"
    /\ cfg' = [cfg EXCEPT !.full_refresh = full_refresh]
    /\ run' = [NoRun EXCEPT !.before =
                   [staging |-> staging, fact |-> fact, dim |-> dim, seq |-> seq,
                    ret |-> run.ret, full_refresh |-> cfg.full_refresh]]
    /\ loader' = [loader EXCEPT ![1] = NoLoader]
    /\ logger' = ETLLogger
    /\ UNCHANGED <<dim, seq, static, last, returned, staging, fact, run_log,
                   step_log, error_log, scopes, signal, clock>>

RerunInit ==
    /\ dim = [d \in CatDims |-> {}]
    /\ seq = [d \in CatDims |-> 0]
    /\ static = [s \in StaticDims |-> [unknown |-> FALSE, populated |-> FALSE]]
    /\ loader = [l \in Loaders |-> NoLoader]
    /\ last = [l |-> 0, d |-> "", arg |-> <<>>,
               result |-> NoResult, raised |-> FALSE]
    /\ returned = [x \in {} |-> 0]
    /\ run_log = <<>>
    /\ step_log = <<>>
    /\ error_log = <<>>
    /\ logger = ETLLogger
    /\ scopes = <<>>
    /\ signal = NoSignal
    /\ clock = 0
    /\ pc = "start"
    /\ cfg \in RerunConfigs
    /\ staging = <<>>
    /\ fact = EmptyFactTable
    /\ run = NoRun

RerunNext ==
    \/ StartRun
    \/ ValidateSource
    \/ InitStaging(FALSE)
    \/ StageChunk(FALSE)
    \/ InitWarehouse("none")
    \/ LoadBatch(FALSE)
    \/ Verify(FALSE)
    \/ Exit
    \/ \E full_refresh \in BOOLEAN : Restart(full_refresh)

\* executions of main one after the other, none of them meeting a fault of
\* the store
SpecRerun == RerunInit /\ [][RerunNext]_vars

-----------------------------------------------------------------------------
(* ETLLogger driven by arbitrary callers *)

LoggerStartRun(load_type) ==
    /\ clock < MaxLogOps
    /\ LET new == start_run(run_log, tick, SourceFile, "dev", load_type)
       IN run_log' = new.run_log /\ logger' = new.logger
    /\ signal' = NoSignal
    /\ clock' = tick
    /\ UNCHANGED <<step_log, error_log, scopes, dimVars, runVars>>

LoggerEndRun(status, source_row_count, error_message) ==
    /\ clock < MaxLogOps
    /\ run_log' = end_run(run_log, logger, tick, status, source_row_count, error_message)
    /\ signal' = NoSignal
    /\ clock' = tick
    /\ UNCHANGED <<step_log, error_log, logger, scopes, dimVars, runVars>>

\* with logger.step(step_name) as metrics:
StepEnter(step_name) ==
    /\ clock < MaxLogOps
    /\ LET new == step_enter(step_log, logger, tick, step_name)
       IN /\ step_log' = new.step_log
          /\ logger' = new.logger
          /\ scopes' = scopes \o new.opened
          /\ signal' = new.signal
    /\ clock' = tick
    /\ UNCHANGED <<run_log, error_log, dimVars, runVars>>

\* the body of the innermost block counts a row
StepCount(counter) ==
    /\ clock < MaxLogOps
    /\ scopes # <<>>
    /\ scopes' = [scopes EXCEPT ![Len(scopes)].metrics[counter] = @ + 1]
    /\ signal' = NoSignal
    /\ clock' = tick
    /\ UNCHANGED <<run_log, step_log, error_log, logger, dimVars, runVars>>

\* the body of the innermost block ends
StepExit(out) ==
    /\ clock < MaxLogOps
    /\ scopes # <<>>
    /\ LET new == step_exit(step_log, scopes[Len(scopes)], tick, out)
       IN step_log' = new.step_log /\ signal' = new.signal
    /\ scopes' = SubSeq(scopes, 1, Len(scopes) - 1)
    /\ clock' = tick
    /\ UNCHANGED <<run_log, error_log, logger, dimVars, runVars>>

LoggerLogError(step_name, error) ==
    /\ clock < MaxLogOps
    /\ LET new == log_error(error_log, logger, tick, step_name, error)
       IN /\ error_log' = new.error_log
          /\ logger' = new.logger
          /\ signal' = new.signal
    /\ clock' = tick
    /\ UNCHANGED <<run_log, step_log, scopes, dimVars, runVars>>

\* a new database on which no pipeline is running
Init ==
    /\ dim = [d \in CatDims |-> {}]
    /\ seq = [d \in CatDims |-> 0]
    /\ static = [s \in StaticDims |-> [unknown |-> FALSE, populated |-> FALSE]]
    /\ loader = [l \in Loaders |-> NoLoader]
    /\ last = [l |-> 0, d |-> "", arg |-> <<>>,
               result |-> NoResult, raised |-> FALSE]
    /\ returned = [x \in {} |-> 0]
    /\ run_log = <<>>
    /\ step_log = <<>>
    /\ error_log = <<>>
    /\ logger = ETLLogger
    /\ scopes = <<>>
    /\ signal = NoSignal
    /\ clock = 0
    /\ pc = "idle"
    /\ cfg = [source |-> <<>>, exists |-> FALSE, batch_size |-> 1, full_refresh |-> TRUE]
    /\ staging = <<>>
    /\ fact = EmptyFactTable
    /\ run = NoRun

LogNext ==
    \/ LoggerStartRun("full")
    \/ \E status \in Statuses :
          LoggerEndRun(status,
                       IF status = "FAILED" THEN Nothing ELSE Some(MaxRows),
                       IF status = "FAILED" THEN Text("database is locked") ELSE None)
    \/ StepEnter("Transform")
    \/ \E counter \in {"rows_read", "rows_rejected"} : StepCount(counter)
    \/ \E out \in BodyOutcomes : StepExit(out)
    \/ LoggerLogError("Transform",
                      ErrorRecord(1, "INVALID_DATE", Text("Cannot parse date: "),
                                  "INCIDENT_DT", EmptyStr))

SpecLog == Init /\ [][LogNext]_vars

-----------------------------------------------------------------------------
(* The resolver driven by arbitrary callers *)

DimNext ==
    \/ \E l \in ThisProcess : Construct(l)
    \/ \E l \in ThisProcess, k \in CountyKeys :
          Call(l, "DIM_COUNTY", <<k>>, get_or_create_county(StoreOf(l), k))
    \/ \E l \in ThisProcess, k \in NaturalKeys :
          Call(l, "DIM_CHIEF_COMPLAINT", <<k>>, get_or_create_complaint(StoreOf(l), k))
    \/ \E l \in ThisProcess, k \in NaturalKeys :
          Call(l, "DIM_ANATOMIC_LOCATION", <<k>>, get_or_create_anatomic(StoreOf(l), k))
    \/ \E l \in ThisProcess, k \in NaturalKeys :
          Call(l, "DIM_SYMPTOM", <<k>>, get_or_create_symptom(StoreOf(l), k))
    \/ \E l \in ThisProcess, k \in NaturalKeys :
          Call(l, "DIM_PROVIDER_IMPRESSION", <<k>>, get_or_create_impression(StoreOf(l), k))
    \/ \E l \in ThisProcess, k \in NaturalKeys :
          Call(l, "DIM_DISPOSITION", <<k>>, get_or_create_disposition(StoreOf(l), k))
    \/ \E l \in ThisProcess, k \in NaturalKeys :
          Call(l, "DIM_DESTINATION_TYPE", <<k>>, get_or_create_destination(StoreOf(l), k))
    \/ \E l \in ThisProcess, k \in NaturalKeys :
          Call(l, "DIM_SERVICE_LEVEL", <<k>>, get_or_create_service_level(StoreOf(l), k))
    \/ \E l \in ThisProcess, s \in StructureKeys, v \in ServiceKeys :
          Call(l, "DIM_PROVIDER_ORGANIZATION", <<s, v>>,
               get_or_create_provider_org(StoreOf(l), s, v))

\* successive pipeline executions resolving against one warehouse
SpecDim == Init /\ [][DimNext]_vars

\* the same, with executions that may be killed inside the seeding script
SeedNext ==
    \/ \E l \in ThisProcess : Construct(l)
    \/ \E l \in ThisProcess : SeedInterrupted(l)
    \/ \E l \in ThisProcess, k \in CountyKeys :
          Call(l, "DIM_COUNTY", <<k>>, get_or_create_county(StoreOf(l), k))
    \/ \E l \in ThisProcess, k \in CountyKeys :
          Call(l, "DIM_SYMPTOM", <<k>>, get_or_create_symptom(StoreOf(l), k))

SpecSeed == Init /\ [][SeedNext]_vars

\* two pipeline processes on one warehouse, each with its own DimensionLoader,
\* their calls interleaved in any order
TwoNext ==
    \/ \E l \in Loaders : Construct(l)
    \/ \E l \in Loaders, k \in CountyKeys :
          Call(l, "DIM_COUNTY", <<k>>, get_or_create_county(StoreOf(l), k))
    \/ \E l \in Loaders, s \in StructureKeys, v \in ServiceKeys :
          Call(l, "DIM_PROVIDER_ORGANIZATION", <<s, v>>,
               get_or_create_provider_org(StoreOf(l), s, v))

\* both processes keep running while they have a call to make
SpecTwo == Init /\ [][TwoNext]_vars /\ WF_vars(TwoNext)

-----------------------------------------------------------------------------
(* get_or_create_provider_org called with structures and services that hold
   the character of the separator *)

\* one pipeline process resolving provider organizations whose structure
\* may end with "|" and whose service may start with it or be absent
OrgNext ==
    \/ \E l \in ThisProcess : Construct(l)
    \/ \E l \in ThisProcess,
          s \in {<<"A">>, <<"A", "|">>},
          v \in {None, EmptyStr, <<"B">>, <<"|", "B">>} :
             Call(l, "DIM_PROVIDER_ORGANIZATION", <<s, v>>,
                  get_or_create_provider_org(StoreOf(l), s, v))

SpecOrg == Init /\ [][OrgNext]_vars

-----------------------------------------------------------------------------
(* load_fact_batch called by arbitrary callers *)

\* inserted = load_fact_batch(records, source_file, db_path)
CallLoadFactBatch(records, fault) ==
    /\ fault <= Len(records)
    /\ Len(fact.rows) + Len(records) <= MaxRows
    /\ LET r == load_fact_batch(fact, records, SourceFile, fault)
       IN /\ fact' = r.fact
          /\ last' = [l |-> 0, d |-> "load_fact_batch", arg |-> records,
                      result |-> r.inserted, raised |-> r.raised]
    /\ UNCHANGED <<dim, seq, static, loader, returned, pc, cfg, staging, run,
                   logVars>>

\* the callers pass up to MaxBatch records, each with a date key, NULL for
\* one of them, its other keys unknown, and a source row number
LoadNext ==
    LET FactRecord(date_key, n) ==
            [c \in DOMAIN KeyColumns \cup {"incident_count", "_source_row_num"} |->
                IF c = "date_key" THEN date_key
                ELSE IF c = "_source_row_num" THEN n
                ELSE IF c = "incident_count" THEN 1
                ELSE UnknownKey]
        Batches(of) == UNION {[1..n -> of] : n \in 0..MaxBatch}
    IN \E records \in Batches({FactRecord(20240115, 1), FactRecord(UnknownKey, 2),
                               FactRecord(NULL, 3)}),
          fault \in 0..MaxBatch : CallLoadFactBatch(records, fault)

SpecLoad == Init /\ [][LoadNext]_vars

-----------------------------------------------------------------------------
(* transform_record called on arbitrary staged rows *)

\* a database whose staging table holds one row as stage_records wrote it:
\* its incident date, its five event timestamps, a text cell, two flags and
\* a numeric cell each drawn from values that parse and values that do not
TransformInit ==
    LET IncidentDates ==
            {None,
             EmptyStr,
             <<"2", "0", "2", "4", "-", "0", "1", "-", "1", "5">>,
             <<"0", "1", "/", "1", "6", "/", "2", "0", "2", "4">>,
             <<"2", "0", "2", "4", "/", "0", "1", "/", "1", "7">>,
             <<"2", "0", "2", "4", "-", "0", "1", "-", "1", "5", "x", "y", "z">>,
             <<"N", "/", "A">>}
        Notified ==
            {None,
             <<"2", "0", "2", "4", "-", "0", "1", "-", "1", "5", " ", "1", "4", ":", "3", "0", ":", "0", "0">>,
             <<"2", "0", "2", "4", "-", "0", "1", "-", "1", "5", "T", "2", "3", ":", "5", "9", ":", "5", "9">>,
             <<"2", "0", "2", "4", "-", "0", "1", "-", "1", "5", " ", "1", "4", ":", "3", "0">>,
             <<"2", "0", "2", "4", "-", "0", "1", "-", "1", "5">>,
             <<"n", "o", "t", "-", "a", "-", "d", "a", "t", "e">>,
             <<"2", "0", "2", "4", "-", "1", "-", "5">>}
        ArrivedOnScene ==
            {EmptyStr,
             <<"2", "0", "2", "4", "-", "0", "1", "-", "1", "5", " ", "1", "4", ":", "3", "8", ":", "0", "1">>,
             <<"2", "0", "2", "4", "-", "0", "1", "-", "1", "5", " ", "1", "4", ":", "2", "9", ":", "5", "9">>,
             <<"2", "0", "2", "4", "-", "0", "1", "-", "1", "6">>,
             <<"g", "a", "r", "b", "a", "g", "e">>,
             <<" ", "2", "0", "2", "4", "-", "0", "1", "-", "1", "5", "T", "1", "4", ":", "3", "0", ":", "2", "0", " ">>}
        Later ==
            {<<None, None, None>>,
             <<<<"2", "0", "2", "4", "-", "0", "1", "-", "1", "5", " ", "1", "4", ":", "3", "8", ":", "3", "1">>, <<"2", "0", "2", "4", "-", "0", "1", "-", "1", "5", " ", "1", "5", ":", "0", "0", ":", "0", "0">>, <<"2", "0", "2", "4", "-", "0", "1", "-", "1", "6", " ", "0", "0", ":", "1", "0", ":", "0", "0">>>>,
             <<<<"u", "n", "k", "n", "o", "w", "n">>, <<"2", "0", "2", "4", "-", "0", "1", "-", "1", "4", " ", "0", "0", ":", "0", "0", ":", "0", "0">>, <<"2", "0", "2", "4", "-", "0", "1", "-", "1", "5", " ", "1", "4", ":", "3", "1">>>>}
        Cells ==
            {<<<<"L", "A", "K", "E", " ", "C", "O", "U", "N", "T", "Y">>, <<"Y", "e", "s">>, <<"1", ".", "0">>, <<"5", ".", "5">>>>,
             <<<<"L", "A", "K", "E", " ", " ", "C", "O", "U", "N", "T", "Y">>, <<" ", "n", "o", " ">>, <<"t", "r", "u", "e">>, <<"-", "3">>>>,
             <<<<" ", "L", "A", "K", "E", " ", "C", "O", "U", "N", "T", "Y", " ">>, EmptyStr, <<"2">>, <<"a", "b", "c">>>>}
        StagedRow(incident_dt, notified, arrived, later, cells) ==
            [c \in SourceColumns \cup AuditColumns |->
                CASE c = "INCIDENT_DT" -> incident_dt
                  [] c = "UNIT_NOTIFIED_BY_DISPATCH_DT" -> notified
                  [] c = "UNIT_ARRIVED_ON_SCENE_DT" -> arrived
                  [] c = "UNIT_ARRIVED_TO_PATIENT_DT" -> later[1]
                  [] c = "UNIT_LEFT_SCENE_DT" -> later[2]
                  [] c = "PATIENT_ARRIVED_DESTINATION_DT" -> later[3]
                  [] c = "INCIDENT_COUNTY" -> cells[1]
                  [] c = "INJURY_FLG" -> cells[2]
                  [] c = "NALOXONE_GIVEN_FLG" -> cells[3]
                  [] c = "PROVIDER_TO_SCENE_MINS" -> cells[4]
                  [] c = "stg_load_id" -> 1
                  [] c = "_source_row_num" -> 1
                  [] c = "_source_file" -> SourceFile
                  [] OTHER -> EmptyStr]
    IN /\ dim = [d \in CatDims |-> {}]
       /\ seq = [d \in CatDims |-> 0]
       /\ static = [s \in StaticDims |-> [unknown |-> FALSE, populated |-> FALSE]]
       /\ loader = [l \in Loaders |-> NoLoader]
       /\ last = [l |-> 0, d |-> "", arg |-> <<>>,
                  result |-> NoResult, raised |-> FALSE]
       /\ returned = [x \in {} |-> 0]
       /\ run_log = <<>>
       /\ step_log = <<>>
       /\ error_log = <<>>
       /\ logger = ETLLogger
       /\ scopes = <<>>
       /\ signal = NoSignal
       /\ clock = 0
       /\ pc = "idle"
       /\ cfg = [source |-> <<>>, exists |-> FALSE, batch_size |-> 1, full_refresh |-> TRUE]
       /\ staging \in {<<StagedRow(incident_dt, notified, arrived, later, cells)>> :
                          incident_dt \in IncidentDates, notified \in Notified,
                          arrived \in ArrivedOnScene, later \in Later, cells \in Cells}
       /\ fact = EmptyFactTable
       /\ run = NoRun

\* result = transform_record(row) for the staged row
TransformRecord ==
    /\ last.d = ""
    /\ last' = [l |-> 0, d |-> "transform_record", arg |-> staging[1],
                result |-> transform_record(staging[1]), raised |-> FALSE]
    /\ UNCHANGED <<dim, seq, static, loader, returned, runVars, logVars>>

SpecTransform == TransformInit /\ [][TransformRecord]_vars

-----------------------------------------------------------------------------
(* Claims about the resolver *)

\* the last step was a get_or_create_* call
IsResolve(c) == c.d \in CatDims
\* ... whose natural key (for the provider organization: its structure part)
\* was None or the empty string
AbsentKey(c) == c.arg[1] = None \/ c.arg[1] = EmptyStr
\* the cache key the call looked up
LookupName(c) ==
    IF c.d = "DIM_PROVIDER_ORGANIZATION"
    THEN c.arg[1] \o OrgSeparator \o (IF c.arg[2] \in {None, EmptyStr} THEN EmptyStr ELSE c.arg[2])
    ELSE c.arg[1]

\* C1: every resolve call for a non-empty natural key returns the surrogate key
\* that the first resolve call for that key returned, on the same instance and
\* on every instance constructed later against the same database.
C1_SameSurrogateKey ==
    (IsResolve(last) /\ ~AbsentKey(last) /\ ~last.raised) =>
        /\ <<last.d, last.arg>> \in DOMAIN returned
        /\ returned[<<last.d, last.arg>>] = last.result

\* a later instance answers, from its hydrated cache, for a row that an earlier
\* instance inserted
C1_Witness ==
    /\ IsResolve(last) /\ ~AbsentKey(last) /\ ~last.raised
    /\ last.result >= 1
    /\ last.result <= loader[last.l].seq0[last.d]
    /\ returned[<<last.d, last.arg>>] = last.result

\* C2: a get_or_create_* call whose natural key is None or empty returns -1,
\* raises nothing, and leaves every dimension table, sqlite_sequence and every
\* cache as they were.
C2_AbsentKeyReturnsUnknown ==
    [][(IsResolve(last') /\ AbsentKey(last')) =>
          /\ last'.result = -1
          /\ ~last'.raised
          /\ dim' = dim /\ seq' = seq /\ static' = static /\ loader' = loader]_dimVars

\* the provider organization resolved with an empty structure and a service,
\* in a warehouse that already holds resolved rows
C2_Witness ==
    /\ last.d = "DIM_PROVIDER_ORGANIZATION"
    /\ last.arg = <<EmptyStr, ALS>>
    /\ last.result = -1
    /\ TotalInserted >= 1

\* C3: once a DimensionLoader has been constructed every one of the 11
\* dimension tables holds exactly one row with surrogate key -1, whatever
\* sentinel rows existed before the construction.
HasOneSentinel(d) ==
    IF d \in StaticDims THEN static[d].unknown
    ELSE Cardinality({x \in dim[d] : x.key = UnknownKey}) = 1

C3_SentinelInEveryTable ==
    (\E l \in Loaders : loader[l].constructed) => \A d \in AllDims : HasOneSentinel(d)

\* C4: within a categorical dimension no two rows share a natural key or a
\* surrogate key; a resolve that misses the cache adds exactly one row, whose
\* key no existing row of the table has, and a resolve that hits adds nothing.
UniqueRows ==
    \A d \in CatDims : \A r1, r2 \in dim[d] :
        (r1.name = r2.name \/ r1.key = r2.key) => r1 = r2

ResolveStep ==
    IsResolve(last') =>
        LET d == last'.d
            hit == AbsentKey(last') \/ LookupName(last') \in DOMAIN loader[last'.l].cache[d]
        IN /\ \A e \in CatDims \ {d} : dim'[e] = dim[e]
           /\ hit => dim'[d] = dim[d]
           /\ (~hit /\ ~last'.raised) =>
                 \E r \in dim'[d] :
                    /\ r \notin dim[d]
                    /\ dim'[d] = dim[d] \cup {r}
                    /\ r.name = LookupName(last')
                    /\ r.key = last'.result
                    /\ \A x \in dim[d] : x.key # r.key /\ x.name # r.name

C4_UniqueNaturalAndSurrogateKeys == []UniqueRows /\ [][ResolveStep]_dimVars

\* a table with two resolved rows beside its sentinel, the last call a hit
C4_Witness ==
    /\ IsResolve(last) /\ ~last.raised
    /\ Cardinality(dim[last.d]) >= 3
    /\ last.result >= 1
    /\ last.result < seq[last.d]

\* the sentinel rows of the categorical dimensions
SentinelRows(dm) == [d \in CatDims |-> {x \in dm[d] : x.key = UnknownKey}]

ConstructStep ==
    last'.d = "__init__" =>
        /\ (\A s \in StaticDims : static[s].populated) =>
              /\ static' = static
              /\ SentinelRows(dim') = SentinelRows(dim)
              /\ dim' = dim /\ seq' = seq
        /\ \A s \in StaticDims :
              /\ static[s].populated => static'[s] = static[s]
              /\ ~static[s].populated => static'[s].populated

\* C14: constructing a DimensionLoader against a database whose date and
\* time-of-day dimensions are populated leaves DIM_DATE, DIM_TIME_OF_DAY and
\* the sentinel rows of every dimension as they were, however often it is
\* done; a construction populates a date or time dimension exactly when that
\* table holds no row beside the sentinel.
C14_ConstructionIdempotent == [][ConstructStep]_dimVars

\* an instance constructed on a database in which an earlier instance had
\* populated the calendars and resolved a natural key
C14_Witness ==
    /\ last.d = "__init__"
    /\ \A s \in StaticDims : static[s].populated /\ static[s].unknown
    /\ \E d \in CatDims : loader[last.l].seq0[d] >= 1

\* some dimension table holds two rows with one natural key
DuplicateNaturalKey ==
    \E d \in CatDims : \E r1, r2 \in dim[d] : r1 # r2 /\ r1.name = r2.name

\* C15 as stated: with the calls of two DimensionLoader instances on one
\* warehouse interleaved, a state is reached in which a dimension table holds
\* two rows with the same natural key.
C15_DuplicateReached == <>DuplicateNaturalKey

\* the last call raised sqlite3.IntegrityError: its natural key is in the
\* table, put there by the other instance, and not in the cache of its own
LostRace ==
    /\ IsResolve(last) /\ last.raised
    /\ \E x \in dim[last.d] : x.name = LookupName(last) /\ x.key >= 1
    /\ LookupName(last) \notin DOMAIN loader[last.l].cache[last.d]

\* C15 amended: however the calls of two DimensionLoader instances on one
\* warehouse are interleaved, no dimension table ever holds two rows with the
\* same natural key; the get_or_create_* call of the instance that comes
\* second for a key it has not cached raises instead of inserting.
C15_InterleavingNeverDuplicates ==
    /\ ~DuplicateNaturalKey
    /\ (IsResolve(last) /\ last.raised) => LostRace

\* an instance resolves a county that the other instance inserted after this
\* one had loaded its caches
C15_Witness ==
    /\ LostRace
    /\ last.d = "DIM_COUNTY"
    /\ \A l \in Loaders : loader[l].constructed

-----------------------------------------------------------------------------
(* Claims about the pipeline driver *)

\* the transform/load loop of Step 5 has run to its end
LoopEnded ==
    \/ pc = "verify"
    \/ pc \in {"returned", "exited"} /\ run.failed \in {"", "verify"}

\* raw incident dates that are blank or not a date
UnparseableDates == {None, EmptyStr, NOT_A_DATE}
Rejectable(i) == staging[i]["INCIDENT_DT"] \in UnparseableDates
RejectedK == Cardinality({i \in DOMAIN staging : Rejectable(i)})
\* the fact rows written for staged record i
FactsOf(i) ==
    {j \in DOMAIN fact.rows :
        fact.rows[j]["_source_row_num"] = staging[i]["_source_row_num"]}

\* C5: over N staged records of which K have a blank or unparseable incident
\* date, for every batch_size, the loop visits every staged record exactly
\* once, ends with rejected_count = K and fact_count = N - K, and has appended
\* exactly one fact row for each valid record and none for a rejected one.
C5_RejectionIsolation ==
    LoopEnded =>
        /\ Len(run.visited) = Len(staging)
        /\ \A i \in DOMAIN staging :
              Cardinality({j \in DOMAIN run.visited :
                              run.visited[j] = staging[i]["stg_load_id"]}) = 1
        /\ run.rejected_count = RejectedK
        /\ run.fact_count = Len(staging) - RejectedK
        /\ Len(fact.rows) = Len(staging) - RejectedK
        /\ \A i \in DOMAIN staging :
              Cardinality(FactsOf(i)) = IF Rejectable(i) THEN 0 ELSE 1

\* three staged records in batches of two: the first batch holds a rejected
\* record followed by a valid one
C5_Witness ==
    /\ LoopEnded
    /\ Len(staging) = 3
    /\ cfg.batch_size = 2
    /\ Rejectable(1) /\ ~Rejectable(2)
    /\ run.rejected_count >= 1
    /\ Cardinality(FactsOf(2)) = 1

\* the ErrorLog rows of this run
ErrorsOfRun == {e \in DOMAIN error_log : error_log[e].run_id = Some(run.run_id)}

\* C6: every record rejected during a run has exactly one ErrorLog row of that
\* run with its source row number, the column INCIDENT_DT and the raw value, so
\* that a run with K rejected records ends with K ErrorLog rows.
C6_OneErrorRowPerRejection ==
    LoopEnded =>
        /\ Cardinality(ErrorsOfRun) = run.rejected_count
        /\ \A i \in DOMAIN staging :
              Rejectable(i) =>
                 \E e \in ErrorsOfRun :
                    /\ error_log[e].source_row_num = staging[i]["_source_row_num"]
                    /\ error_log[e].column_name = "INCIDENT_DT"
                    /\ error_log[e].column_value = staging[i]["INCIDENT_DT"]

\* run_etl has returned without a failure of a step
Completed == pc \in {"returned", "exited"} /\ run.failed = ""

\* C8: a run that completes every step closes its RunLog row with PARTIAL when
\* at least one record was rejected, and with SUCCESS only when none was.
C8_PartialWhenRejected ==
    Completed =>
        run_log[run.run_id].status =
            IF run.rejected_count > 0 THEN "PARTIAL" ELSE "SUCCESS"

\* the steps of run_etl up to and including step s
StepsUpTo(s) ==
    SubSeq(StepOrder, 1, CHOOSE i \in DOMAIN StepOrder : StepOrder[i] = s)

AfterFailure ==
    run.failed # "" =>
        /\ pc \in {"returned", "exited"}
        /\ run.steps = StepsUpTo(run.failed)
        /\ run_log[run.run_id].status = "FAILED"
        /\ run_log[run.run_id].error_message = run.error
        /\ run_log[run.run_id].run_end_dt # Nothing
        /\ run.ret = "False"
        /\ pc = "exited" => run.exit_code # 0

NothingAfterFailure ==
    run.failed # "" =>
        UNCHANGED <<dim, seq, static, loader, staging, fact, run_log, step_log, error_log>>

\* C10: when a step of run_etl fails, no later step is executed in that run,
\* the RunLog row is closed with status FAILED and the failure's message,
\* run_etl returns False and main exits with a non-zero code.
C10_StepFailureAborts == []AfterFailure /\ [][NothingAfterFailure]_vars

\* main has exited after the fact load failed in a later batch
C10_Witness ==
    /\ pc = "exited"
    /\ run.failed = "load"
    /\ run.fact_count >= 1
    /\ run.exit_code = 1
    /\ run_log[run.run_id].status = "FAILED"

\* the StepLog rows of this run
StepsOfRun == {i \in DOMAIN step_log : step_log[i].run_id = Some(run.run_id)}

\* C11: every step of run_etl that starts opens one StepLog row of the current
\* run and closes it when the step ends: a run that has returned has one closed
\* StepLog row per executed step, all SUCCESS when the run succeeded, and when
\* the run failed inside a step that step's row is FAILED as well as the
\* RunLog row.
C11_StepsWrappedByAuditLog ==
    pc \in {"returned", "exited"} =>
        /\ Cardinality(StepsOfRun) = Len(run.steps)
        /\ \A i \in StepsOfRun : step_log[i].step_end_dt # Nothing
        /\ run.failed = "" => \A i \in StepsOfRun : step_log[i].status = "SUCCESS"
        /\ run.failed # "" =>
              /\ run_log[run.run_id].status = "FAILED"
              /\ \E i \in StepsOfRun :
                    /\ step_log[i].step_order = Len(run.steps)
                    /\ step_log[i].status = "FAILED"

\* C16: every fact row's twelve dimension keys are non-null, and each is
\* either -1 or the key of a row that exists in the dimension it refers to.
C16_FactKeysReferenceDimensionRows ==
    \A j \in DOMAIN fact.rows : \A c \in DOMAIN KeyColumns :
        /\ fact.rows[j][c] # NULL
        /\ has_row(dim, static, KeyColumns[c], fact.rows[j][c])

\* a call of load_fact_batch left the fact table as it was
Untouched == fact' = fact

\* a call of load_fact_batch appended one row per record, in order
Appended(records) ==
    /\ Len(fact'.rows) = Len(fact.rows) + Len(records)
    /\ SubSeq(fact'.rows, 1, Len(fact.rows)) = fact.rows
    /\ \A i \in DOMAIN records : \A c \in DOMAIN records[i] :
          fact'.rows[Len(fact.rows) + i][c] = records[i][c]

\* C17: load_fact_batch persists a batch as one unit and returns the count
\* written: for an empty batch it returns 0 and changes nothing; for a
\* non-empty batch it either appends exactly len(records) rows and returns
\* len(records), or raises and leaves the fact table exactly as it was.
C17_LoadFactBatchAtomic ==
    [][IF last'.arg = <<>>
       THEN Untouched /\ last'.result = 0 /\ ~last'.raised
       ELSE \/ ~last'.raised /\ last'.result = Len(last'.arg) /\ Appended(last'.arg)
            \/ last'.raised /\ Untouched]_<<fact, last>>

\* a batch whose second INSERT raises after its first row was written has
\* been passed to a fact table that held a row
C17_Witness ==
    /\ last.d = "load_fact_batch"
    /\ last.raised
    /\ Len(last.arg) >= 2
    /\ last.arg[1]["date_key"] # NULL
    /\ last.arg[2]["date_key"] = NULL
    /\ fact.rows # <<>>

\* the fact rows that existed when this run started and are still there
Survivors ==
    {j \in DOMAIN fact.rows : fact.rows[j]["ems_incident_key"] <= run.before.fact.seq}

\* the fact table begins with the rows the run found, unchanged
KeepsFactsFound ==
    /\ Len(fact.rows) >= Len(run.before.fact.rows)
    /\ SubSeq(fact.rows, 1, Len(run.before.fact.rows)) = run.before.fact.rows

\* C12: in a full-refresh run no fact row that existed before the run is left
\* when the loop of load_fact_batch calls begins, and after a successful
\* full-refresh run the fact table holds the rows of that run only; in an
\* incremental run every fact row that existed before is still there,
\* unchanged, and after the run the row count is the count before plus the
\* number of valid records of the run.
C12_FullRefreshClearsIncrementalAppends ==
    /\ (cfg.full_refresh /\ pc \in {"load", "verify"}) => Survivors = {}
    /\ (cfg.full_refresh /\ Completed) =>
          /\ Survivors = {}
          /\ Len(fact.rows) = Len(staging) - RejectedK
    /\ (~cfg.full_refresh /\ pc \notin {"idle", "start"}) => KeepsFactsFound
    /\ (~cfg.full_refresh /\ Completed) =>
          Len(fact.rows) = Len(run.before.fact.rows) + Len(staging) - RejectedK

\* a full-refresh run has succeeded on a database that held two fact rows of
\* the run before it, and has loaded two rows of its own
C12_Witness ==
    /\ Completed
    /\ cfg.full_refresh
    /\ Len(run.before.fact.rows) = 2
    /\ Len(fact.rows) = 2
    /\ fact.rows[1]["ems_incident_key"] = 3

\* C13: the staging area is dropped and recreated on full refresh only: in a
\* run started with full_refresh = False the staging rows that existed before
\* the run are still present, unchanged, and the run only appends to them.
C13_StagingKeptWhenIncremental ==
    (~cfg.full_refresh /\ pc \notin {"idle", "start"}) =>
        /\ Len(staging) >= Len(run.before.staging)
        /\ SubSeq(staging, 1, Len(run.before.staging)) = run.before.staging

\* a fact row compared on its dimension keys, measures, flags and source row
\* number: every column but the surrogate key of the row
Compared(row) == [c \in DOMAIN row \ {"ems_incident_key"} |-> row[c]]

\* this run is a full refresh that follows a successful full refresh over the
\* same source
RerunOfFullRefresh ==
    /\ cfg.full_refresh
    /\ run.before.full_refresh
    /\ run.before.ret = "True"

\* C18: re-running is idempotent in full-refresh mode: a full-refresh run over
\* the same source after a successful full-refresh run succeeds as well and
\* leaves the same fact rows (compared on dimension keys, measures, flags and
\* source row number) and the same dimension rows with the same surrogate
\* keys; it creates no new dimension row.
C18_FullRefreshRerunIdempotent ==
    (RerunOfFullRefresh /\ pc \in {"returned", "exited"}) =>
        /\ run.ret = "True"
        /\ {Compared(fact.rows[j]) : j \in DOMAIN fact.rows}
              = {Compared(run.before.fact.rows[j]) : j \in DOMAIN run.before.fact.rows}
        /\ Len(fact.rows) = Len(run.before.fact.rows)
        /\ dim = run.before.dim
        /\ seq = run.before.seq

\* the second of two full-refresh runs has returned True after resolving the
\* counties of two fact rows the first run had inserted
C18_Witness ==
    /\ RerunOfFullRefresh
    /\ pc = "returned"
    /\ run.ret = "True"
    /\ Len(fact.rows) = 2
    /\ Cardinality({x \in dim["DIM_COUNTY"] : x.key > 0}) = 2

\* the staging table holds exactly the rows of the source file, in order, with
\* the values they were staged with
HoldsStagedRows ==
    /\ Len(staging) = Len(cfg.source)
    /\ \A i \in DOMAIN staging :
          /\ staging[i]["stg_load_id"] = i
          /\ staging[i]["_source_row_num"] = i
          /\ staging[i]["_source_file"] = SourceFile
          /\ \A c \in SourceColumns : staging[i][c] = cfg.source[i][c]

\* the steps of run_etl after staging has finished
AfterStaging == {"warehouse", "load", "verify"}

\* C19: staged rows are never mutated or deleted by the warehouse-init,
\* transform, resolve, load or verification steps, and when run_etl fails
\* after staging has finished the staging table still holds exactly the rows
\* staged by that run, with their original values.
C19_StagingPreservedAcrossFailure ==
    [][/\ pc \in AfterStaging => staging' = staging
       /\ (pc' = "returned" /\ run'.failed \in AfterStaging) => HoldsStagedRows']_vars

\* the load step has failed after a batch of an earlier turn was written,
\* with two rows staged
C19_Witness ==
    /\ pc = "returned"
    /\ run.failed = "load"
    /\ Len(staging) = 2
    /\ fact.rows # <<>>

\* C20: every store connection a pipeline operation opens is closed on every
\* exit path of that operation, also when it raises: no connection is left
\* open when run_etl returns, with True or with False.
C20_NoConnectionLeftOpen ==
    pc = "returned" => run.conn # "open"

-----------------------------------------------------------------------------
(* Claims about the audit log *)

\* C7: a RunLog row is terminal once end-of-run is recorded: no ETLLogger
\* operation changes the status, end time or error message of a row whose
\* status is SUCCESS, FAILED or PARTIAL.
C7_RunLogTerminal ==
    [][\A i \in DOMAIN run_log :
          run_log[i].status \in Statuses =>
             /\ run_log'[i].status = run_log[i].status
             /\ run_log'[i].run_end_dt = run_log[i].run_end_dt
             /\ run_log'[i].error_message = run_log[i].error_message]_vars

\* the StepLog rows whose `with` block is still open
OpenSteps == {scopes[i].step_log_id : i \in DOMAIN scopes}

\* C9: step closes the StepLog row it opened on every exit path of the body:
\* no StepLog row is still RUNNING, or without an end time, once its scope has
\* been left.
C9_StepAlwaysClosed ==
    \A i \in DOMAIN step_log :
        i \notin OpenSteps =>
            /\ step_log[i].status \in {"SUCCESS", "FAILED"}
            /\ step_log[i].step_end_dt # Nothing

-----------------------------------------------------------------------------
(* Claims about the transformation *)

\* the record transform_record was last called on, and what it returned
Transformed == last.d = "transform_record"

\* the date a value is when, apart from surrounding spaces, the whole of it is
\* a date in YYYY-MM-DD, MM/DD/YYYY or YYYY/MM/DD; ok is FALSE when it is none
DateInAcceptedFormat(value) ==
    LET first(ymd, mdy, ymd_slash) ==
            IF ymd.ok THEN ymd ELSE IF mdy.ok THEN mdy ELSE ymd_slash
        whole(s) == first(strptime(s, "-", 1, 2, 3), strptime(s, "/", 3, 1, 2),
                          strptime(s, "/", 1, 2, 3))
    IN IF value = None \/ value = EmptyStr THEN NoDate ELSE whole(strip(value))

\* C21: transform_record returns is_valid = true if and only if the incident
\* date is present and matches one of the accepted formats, equivalently iff
\* the errors hold no INCIDENT_DT entry and date_key is not -1; no other
\* field (they vary over parseable and unparseable values) changes that.
C21_ValidIffDateInFormat ==
    Transformed =>
        /\ last.result.is_valid = DateInAcceptedFormat(last.arg["INCIDENT_DT"]).ok
        /\ last.result.is_valid =
              (/\ \A i \in DOMAIN last.result.errors :
                     last.result.errors[i].column # "INCIDENT_DT"
               /\ last.result.derived_data.date_key # -1)

\* C22: create_date_key returns YYYYMMDD of the date for every value that is
\* a valid calendar date in one of the accepted formats, a key from which the
\* year, month and day can be read back (distinct dates, distinct keys), and
\* -1 for every value that is not exactly a date in one of those formats and
\* for an empty or absent value.
C22_DateKeyOfExactDate ==
    Transformed =>
        LET date == DateInAcceptedFormat(last.arg["INCIDENT_DT"])
            key == last.result.derived_data.date_key
        IN IF date.ok
           THEN /\ key = date.year * 10000 + date.month * 100 + date.day
                /\ key \div 10000 = date.year
                /\ (key \div 100) % 100 = date.month
                /\ key % 100 = date.day
           ELSE key = -1

\* the endpoints of the four derived duration measures
DurationEndpoints ==
    [dispatch_to_arrival_mins |->
         <<"UNIT_NOTIFIED_BY_DISPATCH_DT", "UNIT_ARRIVED_ON_SCENE_DT">>,
     arrival_to_patient_mins |->
         <<"UNIT_ARRIVED_ON_SCENE_DT", "UNIT_ARRIVED_TO_PATIENT_DT">>,
     scene_time_mins |-> <<"UNIT_ARRIVED_ON_SCENE_DT", "UNIT_LEFT_SCENE_DT">>,
     total_call_time_mins |->
         <<"UNIT_NOTIFIED_BY_DISPATCH_DT", "PATIENT_ARRIVED_DESTINATION_DT">>]

\* the instant a value names when it parses as a timestamp (a date, or a date
\* and a time of day with seconds, apart from surrounding spaces), in seconds
\* from 2000-01-01 00:00:00, counting the days one by one
Instant(value) ==
    LET days(dt) ==
            Cardinality({<<y, m, d>> \in (2000..dt.year) \X (1..12) \X (1..31) :
                            /\ d <= days_in_month(y, m)
                            /\ \/ y < dt.year
                               \/ y = dt.year /\ m < dt.month
                               \/ y = dt.year /\ m = dt.month /\ d < dt.day})
        at(dt, hour, minute, second) ==
            [ok |-> TRUE, days |-> days(dt),
             seconds |-> hour * 3600 + minute * 60 + second]
        first(date, spaced, lettered) ==
            IF date.ok THEN at(date, 0, 0, 0)
            ELSE IF spaced.ok THEN at(spaced, spaced.hour, spaced.minute, spaced.second)
            ELSE IF lettered.ok
                 THEN at(lettered, lettered.hour, lettered.minute, lettered.second)
            ELSE [ok |-> FALSE, days |-> 0, seconds |-> 0]
        parsed(s) == first(strptime(s, "-", 1, 2, 3), strptime_datetime(s, " ", TRUE),
                           strptime_datetime(s, "T", TRUE))
    IN IF value = None \/ value = EmptyStr
       THEN [ok |-> FALSE, days |-> 0, seconds |-> 0]
       ELSE parsed(strip(value))

\* hundredths is seconds / 60 rounded to 2 decimals: no other number of
\* hundredths of a minute is nearer to the number of seconds
RoundedMinutes(hundredths, seconds) ==
    /\ 60 * (hundredths - 100 * (seconds \div 60)) - 100 * (seconds % 60) \in -30..30
    /\ hundredths >= 0

C24_TimeKeyOfTimestamp ==
    Transformed =>
        LET key == last.result.derived_data.time_of_day_key
            expected(spaced, lettered, short, date) ==
                IF spaced.ok THEN spaced.hour * 60 + spaced.minute
                ELSE IF lettered.ok THEN lettered.hour * 60 + lettered.minute
                ELSE IF short.ok THEN short.hour * 60 + short.minute
                ELSE IF date.ok THEN 0
                ELSE -1
            of(s) == expected(strptime_datetime(s, " ", TRUE),
                              strptime_datetime(s, "T", TRUE),
                              strptime_datetime(s, " ", FALSE),
                              strptime(s, "-", 1, 2, 3))
            notified == last.arg["UNIT_NOTIFIED_BY_DISPATCH_DT"]
        IN /\ key = IF notified = None \/ notified = EmptyStr THEN -1
                    ELSE of(strip(notified))
           /\ key \in {-1} \cup 0..1439

\* the five event timestamps: cleaned key -> source column
EventTimestamps ==
    [unit_notified_dt |-> "UNIT_NOTIFIED_BY_DISPATCH_DT",
     unit_arrived_scene_dt |-> "UNIT_ARRIVED_ON_SCENE_DT",
     unit_arrived_patient_dt |-> "UNIT_ARRIVED_TO_PATIENT_DT",
     unit_left_scene_dt |-> "UNIT_LEFT_SCENE_DT",
     patient_arrived_dest_dt |-> "PATIENT_ARRIVED_DESTINATION_DT"]

\* a value that is present and parses in no datetime format any part of the
\* pipeline accepts: not a date, not ten characters long, not a date followed
\* by a time of day with or without seconds, not "%m/%d/%Y %H:%M"
Unparseable(value) ==
    LET us_clock(f) == Len(f) = 2 /\ matches_clock(f[1], 23) /\ matches_clock(f[2], 59)
        us(f) == /\ Len(f) = 2
                 /\ strptime(f[1], "/", 3, 1, 2).ok
                 /\ us_clock(split(f[2], ":"))
        none(s) == /\ s # <<>>
                   /\ Len(s) # 10
                   /\ ~DateInAcceptedFormat(s).ok
                   /\ ~strptime_datetime(s, " ", TRUE).ok
                   /\ ~strptime_datetime(s, "T", TRUE).ok
                   /\ ~strptime_datetime(s, " ", FALSE).ok
                   /\ ~us(split(s, " "))
    IN value # None /\ value # EmptyStr /\ none(strip(value))

\* C25: for each of the 5 event-timestamp fields, when the raw value does not
\* parse in any accepted datetime format, the cleaned value (which the fact
\* row stores) is null, and the record is not rejected because of it: it is
\* valid exactly when its incident date gave a date key.
C25_UnparseableTimestampNull ==
    Transformed =>
        /\ \A k \in DOMAIN EventTimestamps :
              Unparseable(last.arg[EventTimestamps[k]])
                 => last.result.cleaned_data[k] = None
        /\ last.result.is_valid = (last.result.derived_data.date_key # -1)

\* s with every run of whitespace replaced by a single space
Collapsed(s) ==
    LET keep == {i \in DOMAIN s : s[i] \notin Whitespace \/ i = 1
                                  \/ s[i - 1] \notin Whitespace}
        nth(n) == CHOOSE i \in keep : Cardinality({j \in keep : j <= i}) = n
    IN [n \in 1..Cardinality(keep) |->
           IF s[nth(n)] \in Whitespace THEN " " ELSE s[nth(n)]]

\* the text fields: the cleaned keys that are neither the incident date nor
\* an event timestamp
TextFields ==
    {i \in DOMAIN CleanedKeys :
        CleanedKeys[i] \notin DOMAIN EventTimestamps \cup {"incident_dt"}}

\* C26: for every text field the cleaned value is the raw value with leading
\* and trailing whitespace removed and every internal run of whitespace
\* collapsed to a single space, and None when that is the empty string (so
\* that raw values differing only in whitespace give one cleaned value, and
\* one dimension row).
C26_TextTrimmedAndCollapsed ==
    Transformed =>
        \A i \in TextFields :
            LET raw == last.arg[TextColumns[i]]
                expected(s) == IF s = <<>> THEN None ELSE s
            IN last.result.cleaned_data[CleanedKeys[i]] =
                   IF raw = None THEN None ELSE expected(Collapsed(strip(raw)))

-----------------------------------------------------------------------------
(* Claims about the natural keys the resolver accepts *)

\* the last operation was a get_or_create_* call that returned, and its
\* natural key (the structure, for the provider organization) was not empty
ResolvedNonEmptyKey ==
    /\ last.d \in CatDims
    /\ ~last.raised
    /\ last.arg[1] \notin {None, EmptyStr}

\* the value of the UNIQUE natural-key column the last call asked for
LastNaturalKey ==
    IF last.d = "DIM_PROVIDER_ORGANIZATION"
    THEN last.arg[1] \o OrgSeparator \o (IF last.arg[2] = None THEN EmptyStr ELSE last.arg[2])
    ELSE last.arg[1]

\* C27: a get_or_create_* call returns -1 only when the natural key is absent
\* or empty: every non-empty natural key, the literal "Unknown" included,
\* resolves to a surrogate key other than -1 that identifies a row of its own.
C27_UnknownKeyOnlyForAbsent ==
    ResolvedNonEmptyKey =>
        /\ last.result # UnknownKey
        /\ \E x \in dim[last.d] : x.key = last.result /\ x.name = LastNaturalKey

\* C28: in every interleaving of the resolve calls of two DimensionLoader
\* instances on one warehouse, every get_or_create_* call with a non-empty
\* natural key returns a surrogate key without failing, and the key is the
\* one first returned for that natural key by either instance, also when the
\* other instance inserted the row after this one hydrated its cache.
C28_EveryResolveReturnsSameKey ==
    (last.d \in CatDims /\ last.arg[1] \notin {None, EmptyStr}) =>
        /\ ~last.raised
        /\ <<last.d, last.arg>> \in DOMAIN returned
        /\ returned[<<last.d, last.arg>>] = last.result

\* the provider organizations resolved so far: the (structure, service)
\* pairs a call has returned a key for, an absent service taken as empty
ResolvedOrgs ==
    {x[2] : x \in {y \in DOMAIN returned : y[1] = "DIM_PROVIDER_ORGANIZATION"}}

ServiceOf(pair) == IF pair[2] = None THEN EmptyStr ELSE pair[2]

\* C29: get_or_create_provider_org is injective on its composite natural
\* key: calls with different (structure, service) pairs, structure non-empty,
\* return different surrogate keys, each pair has a row of its own, and the
\* joined lookup key structure||service never identifies two different pairs.
C29_ProviderOrgInjective ==
    \A p, q \in ResolvedOrgs :
        (p[1] # q[1] \/ ServiceOf(p) # ServiceOf(q)) =>
            /\ returned[<<"DIM_PROVIDER_ORGANIZATION", p>>]
                  # returned[<<"DIM_PROVIDER_ORGANIZATION", q>>]
            /\ p[1] \o OrgSeparator \o ServiceOf(p) # q[1] \o OrgSeparator \o ServiceOf(q)
            /\ \E x \in dim["DIM_PROVIDER_ORGANIZATION"] :
                  /\ x.key = returned[<<"DIM_PROVIDER_ORGANIZATION", p>>]
                  /\ x.structure = p[1]
                  /\ ServiceOf(<<x.structure, x.service>>) = ServiceOf(p)

-----------------------------------------------------------------------------
(* Claims about the end of a run *)

\* C30: every run opened by run_etl is closed: whenever run_etl has returned,
\* the RunLog row it opened with start_run has a terminal status (never
\* RUNNING) and an end time, and run_etl returned True if and only if that
\* status is SUCCESS.
C30_ReturnedRunIsClosed ==
    pc \in {"returned", "exited"} =>
        /\ run.run_id \in DOMAIN run_log
        /\ run_log[run.run_id].status \in Statuses
        /\ run_log[run.run_id].run_end_dt # Nothing
        /\ (run.ret = "True") = (run_log[run.run_id].status = "SUCCESS")
        /\ run.ret \in {"True", "False"}

\* run_etl has returned False after its last step failed with the facts
\* loaded: the row is closed as FAILED
C30_Witness ==
    /\ pc = "returned"
    /\ run.failed = "verify"
    /\ run.fact_count >= 1
    /\ run.ret = "False"
    /\ run_log[run.run_id].status = "FAILED"
    /\ run_log[run.run_id].run_end_dt # Nothing

====
